---- MODULE Spec2Model ----
(***************************************************************************)
(* Verification model of the credit-decisioning backend (yalkongs/iMNGCSS). *)
(*                                                                         *)
(* Units.  Money is in 만원 (10^4 KRW) unless a name says Won.  Percentages  *)
(* and percentage points are in 10^-4 units ("x4": 40 % = 400000), which   *)
(* is the precision the engine rounds DSR and LTV to.  Probabilities are   *)
(* in 10^-5 units ("x5": 0.05 = 5000).  Time is in minutes.                *)
(***************************************************************************)
EXTENDS Integers, Sequences, FiniteSets, TLC

VARIABLES
    clock,      \* datetime.utcnow(), minutes
    store,      \* regulation_params table: set of committed rows
    next_id,    \* next row id handed out by uuid.uuid4()
    store_up,   \* TRUE while the database answers queries
    cache,      \* Redis: cache_key -> <<>> (absent) or <<entry>>
    wseq,       \* history: number of committed writes per param_key
    ev,         \* requests: id -> state of one evaluate / submit in flight
    q,          \* last direct PolicyEngine._query_param call and its result
    apps,       \* loan_applications table (committed rows), by id
    applicants, \* applicants table (committed rows), by id
    scores,     \* credit_scores table (committed rows), oldest first
    ews,        \* EWSProcessor RED handler in flight
    cbs,        \* CBService instance: its in-memory cache and last lookup
    sc_in,      \* inputs of one ScoringEngine.score call
    sc_out,     \* <<>> before the call, <<result>> after it
    audit_logs  \* audit_logs table (committed rows), oldest first

vars == <<clock, store, next_id, store_up, cache, wseq, ev, q, apps, applicants, scores,
          ews, cbs, sc_in, sc_out, audit_logs>>

(***************************************************************************)
(* Components at rest                                                      *)
(***************************************************************************)
NoApplicant == 0            \* start_application's placeholder applicant_id

\* no RED alert is being handled
EwsIdle == [pc |-> "idle", applicant_id |-> NoApplicant]

\* CBService(): an empty _cache, no lookup made yet
NewCBService == [cache |-> <<>>, last |-> <<>>]

(***************************************************************************)
(* Arithmetic helpers                                                      *)
(***************************************************************************)
Min(a, b) == IF a <= b THEN a ELSE b
Max(a, b) == IF a >= b THEN a ELSE b
Clip(x, lo, hi) == Min(Max(x, lo), hi)

\* Python round(): nearest integer to n/d (n >= 0, d > 0), ties to even.
RoundDiv(n, d) ==
    LET qq == n \div d
        r2 == 2 * (n % d)
    IN  IF r2 < d THEN qq
        ELSE IF r2 > d THEN qq + 1
        ELSE IF qq % 2 = 0 THEN qq ELSE qq + 1

\* round(a * b1 * b2 / d) without leaving 32 bits (a, b1, b2 >= 0, d > 0).
MulDivRound(a, b1, b2, d) ==
    LET n1 == a * b1
        q1 == n1 \div d
        r1 == n1 % d
    IN  q1 * b2 + RoundDiv(r1 * b2, d)

(***************************************************************************)
(* Scoring engine constants (scoring_engine.py)                            *)
(***************************************************************************)
SCORE_BASE == 600
SCORE_PDO == 40
BASE_PD == 72               \* 0.072, in 10^-3
SCORE_MIN == 300
SCORE_MAX == 900
CUTOFF_REJECT == 450
CUTOFF_MANUAL == 530
INCOME_FLOOR == 1200        \* 12,000,000 KRW in 만원
PD_ONE == 100000            \* probability 1.0, x5
PD_CLIP_LO == 100           \* 0.001, x5
PD_CLIP_HI == 99900         \* 0.999, x5
DSR_NO_INCOME == 9990000    \* 999.0 %, x4
APPEAL_PERIOD == 43200      \* timedelta(days=30), in minutes

Products == {"credit", "mortgage", "micro", "credit_soho"}
EqGrades == {"EQ-S", "EQ-A", "EQ-B", "EQ-C", "EQ-D", "EQ-E"}

(***************************************************************************)
(* pd_to_score: Score = BASE - PDO * log2(odds / base_odds), rounded and   *)
(* clipped.  log2 is computed in binary fixed point (28 fraction bits of   *)
(* mantissa, 24 result bits) by repeated squaring; on every pd that is a   *)
(* multiple of 10^-5, and on the multiples of 10^-6 used below, it yields   *)
(* the same integer as the float expression.                               *)
(***************************************************************************)
RECURSIVE Normalize(_, _, _)
\* scale num/den into [1, 2): <<num, den, exponent>>
Normalize(num, den, e) ==
    IF num >= 2 * den THEN Normalize(num, 2 * den, e + 1)
    ELSE IF num < den THEN Normalize(2 * num, den, e - 1)
    ELSE <<num, den, e>>

RECURSIVE Mantissa(_, _, _, _)
\* binary long division: i more fraction bits of (den * m + r) / den
Mantissa(r, den, m, i) ==
    IF i = 0 THEN m
    ELSE IF 2 * r >= den THEN Mantissa(2 * r - den, den, 2 * m + 1, i - 1)
    ELSE Mantissa(2 * r, den, 2 * m, i - 1)

RECURSIVE FracBits(_, _, _)
\* i more bits of log2(m / 2^28), m in [2^28, 2^29)
FracBits(m, frac, i) ==
    IF i = 0 THEN frac
    ELSE LET hi == m \div (2^14)
             lo == m % (2^14)
             t  == hi * hi + ((2 * hi * lo) \div (2^14))
         IN  IF t >= 2^29 THEN FracBits(t \div 2, 2 * frac + 1, i - 1)
             ELSE FracBits(t, 2 * frac, i - 1)

\* round(PDO * log2(num / den)) as <<exponent part, rounded fraction part>>
PdoLog2(num, den) ==
    LET n    == Normalize(num, den, 0)
        m    == Mantissa(n[1] - n[2], n[2], 1, 28)
        frac == FracBits(m, 0, 24)
    IN  SCORE_PDO * n[3] + RoundDiv(SCORE_PDO * frac, 2^24)

\* variant of pd_to_score without the final clip
pd_to_score_unclipped(pd, one) ==
    IF pd <= 0 \/ pd >= one
    THEN (IF pd >= one THEN SCORE_MIN ELSE SCORE_MAX)
    ELSE SCORE_BASE - PdoLog2(pd * (1000 - BASE_PD), (one - pd) * BASE_PD)

\* pd_to_score of the probability pd / one (one = 10^5 or 10^6)
pd_to_score_at(pd, one) ==
    IF pd <= 0 \/ pd >= one
    THEN (IF pd >= one THEN SCORE_MIN ELSE SCORE_MAX)
    ELSE Clip(SCORE_BASE - PdoLog2(pd * (1000 - BASE_PD), (one - pd) * BASE_PD),
              SCORE_MIN, SCORE_MAX)

\* pd in x5
pd_to_score(pd) == pd_to_score_at(pd, PD_ONE)

(***************************************************************************)
(* ScoringEngine (scoring_engine.py)                                       *)
(***************************************************************************)
\* _compute_dsr: DSR in x4 percent; 999.0 when there is no income.
\* new_monthly = requested * 0.005; dsr = total / (income / 12) * 100.
compute_dsr(inp) ==
    IF inp.income_annual <= 0 THEN DSR_NO_INCOME
    ELSE MulDivRound(200 * inp.existing_monthly_payment + inp.requested_amount,
                     60, 1000, inp.income_annual)

\* divmod(m * n, d) for 0 <= n < 10^6, taking n two decimal digits at a
\* time from unit k down (k = 10000, 100, 1), so that no product leaves 32 bits
RECURSIVE HornerDivMod(_, _, _, _, _, _)
HornerDivMod(m, n, d, k, quo, rem) ==
    IF k = 0 THEN <<quo, rem>>
    ELSE LET x == rem * 100 + m * ((n \div k) % 100)
         IN  HornerDivMod(m, n, d, k \div 100, quo * 100 + x \div d, x % d)

\* (r/12) / (1 - (1 + r/12)^(-term)) for r = 0.05 + stress_rate/100, to twelve
\* decimals as <<first six, last six>>; stress_rate in x4 percent
annuity_factor(stress_rate, term) ==
    CASE stress_rate = 0     /\ term = 12 -> <<85607, 481788>>
      [] stress_rate = 0     /\ term = 36 -> <<29970, 897105>>
      [] stress_rate = 3750  /\ term = 12 -> <<85779, 426772>>
      [] stress_rate = 3750  /\ term = 36 -> <<30139, 553933>>
      [] stress_rate = 7500  /\ term = 12 -> <<85951, 564360>>
      [] stress_rate = 7500  /\ term = 36 -> <<30308, 790832>>
      [] stress_rate = 15000 /\ term = 12 -> <<86296, 416960>>
      [] stress_rate = 15000 /\ term = 36 -> <<30649, 2877>>
      [] stress_rate = 20000 /\ term = 12 -> <<86526, 746098>>
      [] stress_rate = 20000 /\ term = 36 -> <<30877, 96865>>

\* _compute_dsr, the stress DSR in x4 percent:
\* (existing + requested * factor) / (income / 12) * 100, rounded once
compute_stress_dsr(inp, stress_rate) ==
    IF inp.income_annual <= 0 THEN DSR_NO_INCOME
    ELSE LET f  == IF inp.requested_term_months > 0
                   THEN annuity_factor(stress_rate, inp.requested_term_months)
                   ELSE <<5000, 0>>                     \* new_monthly
             m  == 12 * inp.requested_amount
             hi == HornerDivMod(m, f[1], inp.income_annual, 10000, 0, 0)
             lo == HornerDivMod(m, f[2], 1000000, 10000, 0, 0)
             e  == inp.existing_monthly_payment * 1000000
             rest == hi[2] + 12 * (e % inp.income_annual) + lo[1]
             qq == hi[1] + 12 * (e \div inp.income_annual) + rest \div inp.income_annual
             r2 == 2 * (rest % inp.income_annual)
             up == \/ r2 > inp.income_annual
                   \/ r2 = inp.income_annual /\ lo[2] > 0
                   \/ r2 + 1 = inp.income_annual /\ 2 * lo[2] > 1000000
             tie == \/ r2 = inp.income_annual /\ lo[2] = 0
                    \/ r2 + 1 = inp.income_annual /\ 2 * lo[2] = 1000000
         IN  IF up \/ (tie /\ qq % 2 = 1) THEN qq + 1 ELSE qq

\* variant of _compute_dsr that returns the stress DSR in both places
compute_dsr_stressed(inp, stress_rate) ==
    <<compute_stress_dsr(inp, stress_rate), compute_stress_dsr(inp, stress_rate)>>

\* _compute_dsr: (dsr, stress_dsr)
compute_dsr_pair(inp, stress_rate) ==
    <<compute_dsr(inp), compute_stress_dsr(inp, stress_rate)>>

\* variant of _compute_ltv without the product test
compute_ltv_any_product(inp) ==
    IF inp.collateral_value <= 0 THEN 0
    ELSE MulDivRound(inp.requested_amount, 1000, 1000, inp.collateral_value)

\* _compute_ltv: LTV in x4 percent; 0.0 unless a mortgage with collateral.
compute_ltv(inp) ==
    IF inp.product_type # "mortgage" \/ inp.collateral_value <= 0 THEN 0
    ELSE MulDivRound(inp.requested_amount, 1000, 1000, inp.collateral_value)

\* eq_multiplier_map, x10
eq_multiplier(eq_grade) ==
    CASE eq_grade = "EQ-S" -> 20
      [] eq_grade = "EQ-A" -> 18
      [] eq_grade = "EQ-B" -> 15
      [] eq_grade = "EQ-C" -> 12
      [] eq_grade = "EQ-D" -> 10
      [] eq_grade = "EQ-E" -> 7
      [] OTHER -> 10

\* pd_final = clip(pd_raw * (1 + irg_pd_adjustment), 0.001, 0.999);
\* irg_pd_adjustment is a ratio in x4 (+0.15 = 1500); pd_raw <= PD_ONE.
pd_final_of(pd_raw, irg_pd_adjustment) ==
    Clip(RoundDiv(pd_raw * ((10000 + irg_pd_adjustment) \div 100), 100),
         PD_CLIP_LO, PD_CLIP_HI)

\* reasons[:n]
Take(seq, n) == SubSeq(seq, 1, Min(n, Len(seq)))

\* _make_rejection_reasons without the final cut to three
all_rejection_reasons(inp, score, dsr, dsr_limit, ltv, ltv_limit) ==
    (IF inp.worst_delinquency_status >= 1 THEN <<"delinquency">> ELSE <<>>)
    \o (IF score < CUTOFF_REJECT THEN <<"score">> ELSE <<>>)
    \o (IF dsr > dsr_limit THEN <<"dsr">> ELSE <<>>)
    \o (IF ltv > ltv_limit THEN <<"ltv">> ELSE <<>>)
    \o (IF inp.income_annual < INCOME_FLOOR THEN <<"income">> ELSE <<>>)

\* _make_rejection_reasons: one reason per condition, in this order, the
\* first three kept
make_rejection_reasons(inp, score, dsr, dsr_limit, ltv, ltv_limit) ==
    Take(all_rejection_reasons(inp, score, dsr, dsr_limit, ltv, ltv_limit), 3)

(***************************************************************************)
(* ScoringEngine._compute_rate_breakdown.  Rates are in x4 percent         *)
(* (3.5 % = 35000); pd is taken to 10^-5.                                  *)
(***************************************************************************)
BASE_RATE == 35000          \* settings.BASE_RATE = 3.5
FUNDING_COST == 12000       \* 1.2
OPERATING_COST == 8000      \* 0.8
MIN_MARGIN == 5000          \* final_rate >= base_rate + 0.5

\* LGD_BY_PRODUCT.get(product_type, 0.45), in percent
lgd_of(product_type) ==
    CASE product_type = "credit" -> 45
      [] product_type = "credit_soho" -> 50
      [] product_type = "mortgage" -> 25
      [] product_type = "micro" -> 60
      [] OTHER -> 45

\* eq_adj_map.get(eq_grade, 0.0)
eq_adjustment(eq_grade) ==
    CASE eq_grade = "EQ-S" -> -5000
      [] eq_grade = "EQ-A" -> -3000
      [] eq_grade = "EQ-B" -> -2000
      [] eq_grade = "EQ-C" -> 0
      [] eq_grade = "EQ-D" -> 2000
      [] eq_grade = "EQ-E" -> 5000
      [] OTHER -> 0

\* seg_discount_map, for the segment codes without a third part
seg_discount(segment_code) ==
    CASE segment_code = "SEG-DR" -> -3000
      [] segment_code = "SEG-JD" -> -2000
      [] segment_code = "SEG-YTH" -> -5000
      [] segment_code = "SEG-MIL" -> -5000
      [] OTHER -> 0

compute_rate_breakdown(pd, product_type, eq_grade, segment_code, base_rate, max_rate) ==
    LET credit_spread == RoundDiv(pd * lgd_of(product_type), 4)
        raw_rate == base_rate + credit_spread + FUNDING_COST + OPERATING_COST
                    + eq_adjustment(eq_grade) + seg_discount(segment_code)
        capped   == Min(raw_rate, max_rate)
    IN  [base_rate |-> base_rate,
         credit_spread |-> credit_spread,
         rate_capped |-> raw_rate > max_rate,
         final_rate |-> Max(capped, base_rate + MIN_MARGIN)]

\* the arguments of one _compute_rate_breakdown call
RateCases ==
    [pd : {100, 1000, 7200, 40000, 99900},
     product_type : {"credit", "mortgage", "micro"},
     eq_grade : {"EQ-S", "EQ-C", "EQ-E"},
     segment_code : {"", "SEG-DR", "SEG-YTH"},
     base_rate : {BASE_RATE, 198000},
     max_rate : {200000, 150000}]

RateCall ==
    /\ sc_out = <<>>
    /\ sc_out' = <<compute_rate_breakdown(sc_in.pd, sc_in.product_type, sc_in.eq_grade,
                                          sc_in.segment_code, sc_in.base_rate,
                                          sc_in.max_rate)>>
    /\ UNCHANGED <<clock, store, next_id, store_up, cache, wseq, ev, q, apps,
                   applicants, scores, ews, cbs, sc_in, audit_logs>>

\* ScoringEngine.score.  pd_raw is the PD provider's output for inp.
engine_score(inp, pd_raw, dsr_limit, stress_dsr_rate, ltv_limit, max_rate, base_rate) ==
    LET pd_final == pd_final_of(pd_raw, inp.irg_pd_adjustment)
        score    == pd_to_score(pd_final)
        dsrs     == compute_dsr_pair(inp, stress_dsr_rate)
        dsr      == dsrs[1]
        stress_dsr == dsrs[2]
        ltv      == compute_ltv(inp)
        dsr_breached == dsr > dsr_limit
        ltv_breached == ltv > ltv_limit
        is_hard_reject ==
            \/ inp.worst_delinquency_status >= 2
            \/ score < CUTOFF_REJECT
            \/ dsr_breached
            \/ ltv_breached
            \/ inp.income_annual < INCOME_FLOOR
        decision ==
            IF is_hard_reject THEN "rejected"
            ELSE IF score < CUTOFF_MANUAL THEN "manual_review"
            ELSE "approved"
        rejection_reasons ==
            IF is_hard_reject
            THEN make_rejection_reasons(inp, score, dsr, dsr_limit, ltv, ltv_limit)
            ELSE <<>>
        appeal_deadline ==
            IF decision \in {"rejected", "manual_review"}
            THEN <<clock + APPEAL_PERIOD>> ELSE <<>>
        requested_won == inp.requested_amount * 10000
        income_cap_won == inp.income_annual * 15 * eq_multiplier(inp.eq_grade) * 100
        approved_amount ==
            IF decision = "rejected" THEN 0
            ELSE IF decision = "approved" /\ inp.product_type \in {"credit", "credit_soho"}
                 THEN Min(requested_won, income_cap_won)
            ELSE requested_won
    IN  [score |-> score, pd_final |-> pd_final,
         dsr_ratio |-> dsr, stress_dsr_ratio |-> stress_dsr, ltv_ratio |-> ltv,
         dsr_limit_breached |-> dsr_breached, ltv_limit_breached |-> ltv_breached,
         decision |-> decision, approved_amount_won |-> approved_amount,
         rejection_reasons |-> rejection_reasons,
         appeal_deadline |-> appeal_deadline,
         rate_breakdown |->
            compute_rate_breakdown(pd_final, inp.product_type, inp.eq_grade,
                                   inp.segment_code, base_rate, max_rate)]

\* score() with the defaults of its signature for stress_dsr_rate, max_rate
\* and base_rate
Score(inp, pd_raw, dsr_limit, ltv_limit) ==
    engine_score(inp, pd_raw, dsr_limit, 0, ltv_limit, 200000, BASE_RATE)

(***************************************************************************)
(* One ScoringEngine.score call as ScoringService.evaluate makes it        *)
(***************************************************************************)
LTV_NOT_APPLICABLE == 1000000      \* ltv_limit = 100.0 for non-mortgage, x4

\* scoring_service.py: the LTV limit handed to the engine
service_ltv_limit(product_type, resolved) ==
    IF product_type = "mortgage" THEN resolved ELSE LTV_NOT_APPLICABLE

ScoringInputs ==
    [product_type : Products,
     requested_amount : {3000, 50000},
     income_annual : {1100, 1200, 8000},
     worst_delinquency_status : {0, 1, 2},
     eq_grade : {"EQ-C", "EQ-E"},
     irg_pd_adjustment : {0, 3000},
     collateral_value : {0, 40000, 100000},
     existing_monthly_payment : {0, 250},
     segment_code : {""},
     requested_term_months : {36}]

\* PD provider outputs (x5) spread over the score range
PdRawGrid == {100, 7200, 15000, 25000, 40000, 99000}

\* limits a resolution can return for the seeded and the fallback tables, x4
DsrLimits == {400000}
LtvLimits == {700000, 400000, 300000}

ScoreCases ==
    [inp : ScoringInputs, pd_raw : PdRawGrid, dsr_limit : DsrLimits,
     ltv_resolved : LtvLimits]

ScoreCall ==
    /\ sc_out = <<>>
    /\ sc_out' = <<Score(sc_in.inp, sc_in.pd_raw, sc_in.dsr_limit,
                         service_ltv_limit(sc_in.inp.product_type, sc_in.ltv_resolved))>>
    /\ UNCHANGED <<clock, store, next_id, store_up, cache, wseq, ev, q, apps,
                   applicants, scores, ews, cbs, sc_in, audit_logs>>

IdleRest ==
    /\ clock = 0 /\ store = {} /\ next_id = 1 /\ store_up = TRUE
    /\ cache = <<>> /\ wseq = <<>> /\ ev = <<>> /\ q = <<>>
    /\ apps = <<>> /\ applicants = <<>> /\ scores = <<>>
    /\ ews = EwsIdle /\ cbs = NewCBService
    /\ audit_logs = <<>>

InitScore ==
    /\ sc_in \in ScoreCases
    /\ sc_out = <<>>
    /\ IdleRest

NextScore == ScoreCall

SpecScore == InitScore /\ [][NextScore]_vars

\* two engine runs that differ only in the stress add-on
StressInputs ==
    [product_type : {"credit", "mortgage"},
     requested_amount : {3000, 8800, 50000},
     income_annual : {1200, 8000},
     worst_delinquency_status : {0, 2},
     eq_grade : {"EQ-C"},
     irg_pd_adjustment : {0},
     collateral_value : {100000},
     existing_monthly_payment : {0, 250},
     segment_code : {""},
     requested_term_months : {0, 12, 36}]

\* stress add-ons of the seeded and the fallback tables, x4
StressRates == {0, 3750, 7500, 15000, 20000}

StressCases ==
    [inp : StressInputs, pd_raw : {7200, 25000, 99000}, dsr_limit : DsrLimits,
     ltv_limit : {700000}, stress_a : StressRates, stress_b : StressRates]

StressCall ==
    /\ sc_out = <<>>
    /\ sc_out' = <<engine_score(sc_in.inp, sc_in.pd_raw, sc_in.dsr_limit, sc_in.stress_a,
                                service_ltv_limit(sc_in.inp.product_type, sc_in.ltv_limit),
                                200000, BASE_RATE),
                   engine_score(sc_in.inp, sc_in.pd_raw, sc_in.dsr_limit, sc_in.stress_b,
                                service_ltv_limit(sc_in.inp.product_type, sc_in.ltv_limit),
                                200000, BASE_RATE)>>
    /\ UNCHANGED <<clock, store, next_id, store_up, cache, wseq, ev, q, apps,
                   applicants, scores, ews, cbs, sc_in, audit_logs>>

InitStress ==
    /\ sc_in \in StressCases
    /\ sc_out = <<>>
    /\ IdleRest

NextStress == StressCall

SpecStress == InitStress /\ [][NextStress]_vars

\* pd_to_score alone, on pairs pd_a <= pd_b of probabilities in 10^-6 from
\* 10^-6 to 1 - 10^-6
PdMicro == 10 * PD_ONE

PdGrid ==
    {1, 10, 100, 430, 440, 1000, 10000, 50000, 72000, 100000, 300000, 500000,
     550000, 900000, 930000, 940000, 990000, 999000, 999990, 999999}

PdCall ==
    /\ sc_out = <<>>
    /\ sc_out' = <<pd_to_score_at(sc_in.pd_a, PdMicro),
                   pd_to_score_at(sc_in.pd_b, PdMicro)>>
    /\ UNCHANGED <<clock, store, next_id, store_up, cache, wseq, ev, q, apps,
                   applicants, scores, ews, cbs, sc_in, audit_logs>>

InitPd ==
    /\ sc_in \in {c \in [pd_a : PdGrid, pd_b : PdGrid] : c.pd_a <= c.pd_b}
    /\ sc_out = <<>>
    /\ IdleRest

NextPd == PdCall

SpecPd == InitPd /\ [][NextPd]_vars

\* the rate breakdown alone, over RateCases
InitRate ==
    /\ sc_in \in RateCases
    /\ sc_out = <<>>
    /\ IdleRest

NextRate == RateCall

SpecRate == InitRate /\ [][NextRate]_vars

(***************************************************************************)
(* Regulation parameter store (regulation_params table, admin.py,          *)
(* seed_regulation_params.py, PolicyEngine._query_param)                   *)
(*                                                                         *)
(* A param_key "a.b.c" is the tuple <<"a", "b", "c">>; a cache key "a:b:c" *)
(* is the tuple <<"a", "b", "c">> as well.  A JSON object is a function    *)
(* from field names to values, None and {} are the empty function.  The    *)
(* time axis starts shortly before the phase-3 date; only the order of the *)
(* earlier dates matters, so they are placed on the first ticks.           *)
(***************************************************************************)
EPOCH == 0                  \* 2020-01-01
PHASE2_DATE == 1            \* 2024-02-26
PHASE3_DATE == 3            \* 2025-07-01
CACHE_TTL == 5              \* 300 s, in minutes
MaxClock == 3               \* the clock stops here
MaxWrites == 1              \* admin writes per behaviour

EmptyMap == <<>>
NoValue == <<>>

\* dict.get(k, default)
Get(m, k, default) == IF k \in DOMAIN m THEN m[k] ELSE default

\* x or default, for a string-or-None (None is "")
OrDefault(x, default) == IF x = "" THEN default ELSE x

\* Python truthiness of a dict-or-None
Truthy(m) == DOMAIN m # {}

Users == {"risk_a", "risk_b"}

SeedItem(key, value, cond, from, to) ==
    [param_key |-> key, param_value |-> value, condition_json |-> cond,
     effective_from |-> from, effective_to |-> to]

\* SEED_PARAMS, the rows an evaluation can resolve (numbers in x4)
SEED_PARAMS == <<
    SeedItem(<<"stress_dsr", "metropolitan", "variable">>, [rate |-> 7500],
             [region |-> "metropolitan", rate_type |-> "variable"],
             PHASE2_DATE, <<PHASE3_DATE>>),
    SeedItem(<<"stress_dsr", "metropolitan", "variable">>, [rate |-> 15000],
             [region |-> "metropolitan", rate_type |-> "variable"],
             PHASE3_DATE, <<>>),
    SeedItem(<<"stress_dsr", "metropolitan", "mixed_short">>, [rate |-> 7500],
             [region |-> "metropolitan", rate_type |-> "mixed_short"],
             PHASE2_DATE, <<PHASE3_DATE>>),
    SeedItem(<<"ltv", "general">>, [max_ratio |-> 700000],
             [area_type |-> "general"], EPOCH, <<>>),
    SeedItem(<<"ltv", "speculation_area">>,
             [max_ratio |-> 400000, multi_owner_deduction |-> 100000],
             [area_type |-> "speculation_area"], EPOCH, <<>>),
    SeedItem(<<"dsr", "max_ratio">>, [max_ratio |-> 400000], EmptyMap, EPOCH, <<>>),
    SeedItem(<<"rate", "max_interest">>, [max_rate |-> 200000], EmptyMap, EPOCH, <<>>),
    SeedItem(<<"irg", "pd_adjustment", "M">>, [adjustment |-> 0],
             [irg_grade |-> "M"], EPOCH, <<>>),
    SeedItem(<<"irg", "pd_adjustment", "H">>, [adjustment |-> 1500],
             [irg_grade |-> "H"], EPOCH, <<>>),
    SeedItem(<<"segment", "benefit", "SEG-DR">>,
             [guaranteed_eq_grade |-> "EQ-B", limit_multiplier |-> 30000,
              rate_discount |-> -3000],
             [segment |-> "SEG-DR"], EPOCH, <<>>) >>

ParamKeys == {SEED_PARAMS[i].param_key : i \in DOMAIN SEED_PARAMS}

\* a RegulationParam row
Row(id, item, created_by, approved_by, change_reason) ==
    [id |-> id, param_key |-> item.param_key, param_value |-> item.param_value,
     condition_json |-> item.condition_json,
     effective_from |-> item.effective_from, effective_to |-> item.effective_to,
     is_active |-> TRUE, created_by |-> created_by, approved_by |-> approved_by,
     change_reason |-> change_reason]

\* the unique constraint (param_key, effective_from)
Exists(rows, key, from) ==
    \E r \in rows : r.param_key = key /\ r.effective_from = from

\* seed_regulation_params: insert every item whose (param_key,
\* effective_from) is not stored yet, then commit
SeedRows(rows, first_id) ==
    {Row(first_id + i - 1, SEED_PARAMS[i], "system_seed", "system_seed", "") :
        i \in {j \in DOMAIN SEED_PARAMS :
                 ~Exists(rows, SEED_PARAMS[j].param_key, SEED_PARAMS[j].effective_from)}}

seed_regulation_params ==
    /\ store_up
    /\ SeedRows(store, next_id) # {}
    /\ store' = store \cup SeedRows(store, next_id)
    /\ next_id' = next_id + Len(SEED_PARAMS)
    /\ UNCHANGED <<clock, store_up, cache, wseq, ev, q, apps, applicants, scores, ews, cbs,
                   sc_in, sc_out, audit_logs>>

\* redis KEYS "*{param_key}*": the dotted text of a param_key with several
\* components occurs in no colon-joined cache key; a one-component key
\* matches the cache keys that carry it
GlobMatch(cache_key, param_key) ==
    /\ Len(param_key) = 1
    /\ \E i \in DOMAIN cache_key : cache_key[i] = param_key[1]

\* PolicyEngine.invalidate_cache(param_key) on an engine built with or
\* without a Redis client
invalidate_cache(has_redis, c, param_key) ==
    IF ~has_redis THEN c
    ELSE [k \in DOMAIN c |-> IF GlobMatch(k, param_key) THEN <<>> ELSE c[k]]

Writes == LET RECURSIVE Sum(_)
              Sum(S) == IF S = {} THEN 0
                        ELSE LET k == CHOOSE x \in S : TRUE
                             IN  wseq[k] + Sum(S \ {k})
          IN  Sum(DOMAIN wseq)

\* POST /admin/regulation-params; the handler builds PolicyEngine(db), an
\* engine without a Redis client, for the invalidation
create_regulation_param(actor, req) ==
    /\ store_up
    /\ Writes < MaxWrites
    /\ ~Exists(store, req.param_key, req.effective_from)
    /\ store' = store \cup
          {Row(next_id, req, actor, req.approved_by, req.change_reason)}
    /\ next_id' = next_id + 1
    /\ wseq' = [wseq EXCEPT ![req.param_key] = @ + 1]
    /\ cache' = invalidate_cache(FALSE, cache, req.param_key)
    /\ UNCHANGED <<clock, store_up, ev, q, apps, applicants, scores, ews, cbs, sc_in,
                   sc_out, audit_logs>>

\* DELETE /admin/regulation-params/{param_id}
deactivate_regulation_param(param_id) ==
    /\ store_up
    /\ Writes < MaxWrites
    /\ \E row \in store :
        /\ row.id = param_id
        /\ store' = (store \ {row}) \cup
              {[row EXCEPT !.is_active = FALSE, !.effective_to = <<clock>>,
                           !.change_reason = "deactivated"]}
        /\ wseq' = [wseq EXCEPT ![row.param_key] = @ + 1]
        /\ cache' = invalidate_cache(FALSE, cache, row.param_key)
    /\ UNCHANGED <<clock, next_id, store_up, ev, q, apps, applicants, scores, ews, cbs,
                   sc_in, sc_out, audit_logs>>

\* the WHERE clause of _query_param
Selected(rows, param_key, eff) ==
    {r \in rows : /\ r.param_key = param_key
                  /\ r.is_active
                  /\ r.effective_from <= eff
                  /\ (r.effective_to = <<>> \/ r.effective_to[1] >= eff)}

\* PolicyEngine._query_param on a reachable store: ORDER BY effective_from
\* DESC LIMIT 1, then the condition test on that one row
query_param(rows, param_key, condition_match, eff) ==
    LET sel == Selected(rows, param_key, eff)
    IN  IF sel = {} THEN NoValue
        ELSE LET row == CHOOSE r \in sel :
                            \A o \in sel : o.effective_from <= r.effective_from
             IN  IF /\ Truthy(condition_match)
                    /\ Truthy(row.condition_json)
                    /\ \E k \in DOMAIN condition_match :
                          \/ k \notin DOMAIN row.condition_json
                          \/ row.condition_json[k] # condition_match[k]
                 THEN NoValue
                 ELSE <<row.param_value>>

\* a direct _query_param call; q keeps the call and what it returned
QueryParam(param_key, condition_match, eff) ==
    /\ store_up
    /\ q' = [param_key |-> param_key, condition_match |-> condition_match,
             effective_date |-> eff,
             result |-> query_param(store, param_key, condition_match, eff)]
    /\ UNCHANGED <<clock, store, next_id, store_up, cache, wseq, ev, apps,
                   applicants, scores, ews, cbs, sc_in, sc_out, audit_logs>>

Tick ==
    /\ clock < MaxClock
    /\ clock' = clock + 1
    /\ UNCHANGED <<store, next_id, store_up, cache, wseq, ev, q, apps, applicants, scores,
                   ews, cbs, sc_in, sc_out, audit_logs>>

(***************************************************************************)
(* PolicyEngine getters (policy_engine.py).  A cache entry carries, beside *)
(* the cached value and its expiry, three history fields: the param_key    *)
(* and effective date of the resolution that wrote it, and the number of   *)
(* committed writes to that key at that moment.                            *)
(***************************************************************************)
\* _get_cached: an entry is readable on an engine with a Redis client until
\* its TTL runs out
CacheHit(has_redis, cache_key) ==
    /\ has_redis
    /\ cache_key \in DOMAIN cache
    /\ clock < cache[cache_key].expires

\* what one getter call returns: the value (or the failure of the store
\* query), the cache after the call, and where the value came from
FromCache(cache_key, param_key) ==
    [ok |-> TRUE, value |-> cache[cache_key].value, cache |-> cache,
     src |-> [from_cache |-> TRUE, for_key |-> param_key,
              param_key |-> cache[cache_key].param_key,
              asof |-> cache[cache_key].asof,
              wver |-> cache[cache_key].wver,
              wnow |-> Get(wseq, param_key, 0)]]

StoreFailure == [ok |-> FALSE, value |-> 0, cache |-> cache, src |-> <<>>]

\* _set_cached on an engine with a Redis client, then return
FromStore(has_redis, cache_key, param_key, eff, value) ==
    [ok |-> TRUE, value |-> value,
     cache |-> IF has_redis
               THEN (cache_key :> [value |-> value, expires |-> clock + CACHE_TTL,
                                   param_key |-> param_key, asof |-> eff,
                                   wver |-> Get(wseq, param_key, 0)])
                    @@ cache
               ELSE cache,
     src |-> [from_cache |-> FALSE, for_key |-> param_key,
              param_key |-> param_key, asof |-> eff,
              wver |-> Get(wseq, param_key, 0), wnow |-> Get(wseq, param_key, 0)]]

\* the _query_param call of a getter: NoValue or <<value>>
Queried(param_key, eff) == query_param(store, param_key, EmptyMap, eff)

\* the common shape of the getters: cache, else store, else fallback;
\* computed is what the getter makes of Queried(param_key, eff)
Resolve(has_redis, cache_key, param_key, eff, computed) ==
    IF CacheHit(has_redis, cache_key) THEN FromCache(cache_key, param_key)
    ELSE IF ~store_up THEN StoreFailure
    ELSE FromStore(has_redis, cache_key, param_key, eff, computed)

\* fallback_map of get_stress_dsr_rate, x4
stress_fallback(region, rate_type) ==
    CASE region = "metropolitan" /\ rate_type = "variable" -> 7500
      [] region = "metropolitan" /\ rate_type = "mixed_short" -> 7500
      [] region = "metropolitan" /\ rate_type = "mixed_long" -> 3750
      [] region = "non_metropolitan" /\ rate_type = "variable" -> 15000
      [] region = "non_metropolitan" /\ rate_type = "mixed_short" -> 15000
      [] region = "non_metropolitan" /\ rate_type = "mixed_long" -> 7500
      [] OTHER -> 0

get_stress_dsr_rate(has_redis, region, rate_type, eff) ==
    IF rate_type = "fixed"
    THEN [ok |-> TRUE, value |-> 0, cache |-> cache, src |-> <<>>]
    ELSE LET v == Queried(<<"stress_dsr", region, rate_type>>, eff)
         IN  Resolve(has_redis, <<"stress_dsr", region, rate_type, "latest">>,
                     <<"stress_dsr", region, rate_type>>, eff,
                     IF v = NoValue THEN stress_fallback(region, rate_type)
                     ELSE Get(v[1], "rate", 0))

\* f"owned{owned_count}"
OwnedTag(owned_count) ==
    CASE owned_count = 0 -> "owned0"
      [] owned_count = 1 -> "owned1"
      [] owned_count = 2 -> "owned2"
      [] OTHER -> "owned3+"

\* fallback_map of get_ltv_limit, x4
ltv_fallback(area_type) ==
    CASE area_type = "general" -> 700000
      [] area_type = "regulated" -> 600000
      [] area_type = "speculation_area" -> 400000
      [] OTHER -> 700000

get_ltv_limit(has_redis, area_type, owned_count, eff) ==
    LET v == Queried(<<"ltv", area_type>>, eff)
    IN  Resolve(has_redis, <<"ltv", area_type, OwnedTag(owned_count)>>,
                <<"ltv", area_type>>, eff,
                IF v = NoValue THEN ltv_fallback(area_type)
                ELSE Get(v[1], "max_ratio", 700000)
                     - (IF owned_count >= 2 /\ "multi_owner_deduction" \in DOMAIN v[1]
                        THEN v[1]["multi_owner_deduction"] ELSE 0))

get_dsr_limit(has_redis, product_type, eff) ==
    LET v == Queried(<<"dsr", "max_ratio">>, eff)
    IN  Resolve(has_redis, <<"dsr", "limit", product_type>>, <<"dsr", "max_ratio">>, eff,
                IF v # NoValue /\ Truthy(v[1])
                THEN Get(v[1], "max_ratio", 400000) ELSE 400000)

get_max_interest_rate(has_redis, eff) ==
    LET v == Queried(<<"rate", "max_interest">>, eff)
    IN  Resolve(has_redis, <<"rate", "max_interest">>, <<"rate", "max_interest">>, eff,
                IF v # NoValue /\ Truthy(v[1])
                THEN Get(v[1], "max_rate", 200000) ELSE 200000)

\* fallback of get_irg_pd_adjustment, ratio in x4
irg_fallback(irg_code) ==
    CASE irg_code = "L" -> -1000
      [] irg_code = "M" -> 0
      [] irg_code = "H" -> 1500
      [] irg_code = "VH" -> 3000
      [] OTHER -> 0

get_irg_pd_adjustment(has_redis, irg_code, eff) ==
    LET v == Queried(<<"irg", "pd_adjustment", irg_code>>, eff)
    IN  Resolve(has_redis, <<"irg", "pd_adjustment", irg_code>>,
                <<"irg", "pd_adjustment", irg_code>>, eff,
                IF v = NoValue THEN irg_fallback(irg_code)
                ELSE Get(v[1], "adjustment", 0))

\* fallback of get_segment_benefit for the segment codes without "-MOU-"
segment_fallback(segment_code) ==
    CASE segment_code = "SEG-DR" ->
            [guaranteed_eq_grade |-> "EQ-B", limit_multiplier |-> 30000,
             rate_discount |-> -3000]
      [] segment_code = "SEG-JD" ->
            [guaranteed_eq_grade |-> "EQ-B", limit_multiplier |-> 25000,
             rate_discount |-> -2000]
      [] segment_code = "SEG-MIL" ->
            [guaranteed_eq_grade |-> "EQ-S", limit_multiplier |-> 20000,
             rate_discount |-> -5000]
      [] segment_code = "SEG-YTH" ->
            [rate_discount |-> -5000, limit_multiplier |-> 10000]
      [] OTHER -> EmptyMap

get_segment_benefit(has_redis, segment_code, eff) ==
    LET v == Queried(<<"segment", "benefit", segment_code>>, eff)
    IN  Resolve(has_redis, <<"segment", segment_code>>,
                <<"segment", "benefit", segment_code>>, eff,
                IF v = NoValue THEN segment_fallback(segment_code) ELSE v[1])

(***************************************************************************)
(* CBService (cb_service.py)                                               *)
(***************************************************************************)
CB_FALLBACK_SCORE == 700
CB_CACHE_TTL == 60          \* timedelta(hours=1), in minutes
MaxCBClock == 90            \* the bureau lookups are followed this long

\* what a bureau answers: <<>> when the call raises, else <<record>>
BureauRecords ==
    {[cb_score |-> 820, credit_grade |-> "AA", delinquency_count_12m |-> 0,
      worst_delinquency_status |-> 0, inquiry_count_3m |-> 0],
     [cb_score |-> 820, credit_grade |-> "AA", delinquency_count_12m |-> 0,
      worst_delinquency_status |-> 0, inquiry_count_3m |-> 4],
     [cb_score |-> 600, credit_grade |-> "B", delinquency_count_12m |-> 1,
      worst_delinquency_status |-> 1, inquiry_count_3m |-> 0]}

BureauAnswers == {<<>>} \cup {<<b>> : b \in BureauRecords}

CBScore(source, data, is_fallback) ==
    [source |-> source, cb_score |-> data.cb_score,
     credit_grade |-> data.credit_grade,
     delinquency_count_12m |-> data.delinquency_count_12m,
     worst_delinquency_status |-> data.worst_delinquency_status,
     inquiry_count_3m |-> data.inquiry_count_3m,
     is_fallback |-> is_fallback]

fallback_score ==
    CBScore("fallback",
            [cb_score |-> CB_FALLBACK_SCORE, credit_grade |-> "BB",
             delinquency_count_12m |-> 0, worst_delinquency_status |-> 0,
             inquiry_count_3m |-> 0],
            TRUE)

\* _get_cached of an instance whose cache is c
cb_cached(c, resident, now) ==
    /\ resident \in DOMAIN c
    /\ now - c[resident].cached_at < CB_CACHE_TTL

\* get_score on an instance whose cache is c, when the bureaus would answer
\* nice and kcb: the returned CBScore, the instance's cache afterwards, and
\* which bureaus were called
get_score(c, resident, now, nice, kcb) ==
    IF cb_cached(c, resident, now)
    THEN [score |-> [c[resident].score EXCEPT !.source = "cached"],
          cache |-> [c EXCEPT ![resident].score.source = "cached"],
          called_nice |-> FALSE, called_kcb |-> FALSE]
    ELSE IF nice # <<>>
    THEN [score |-> CBScore("nice", nice[1], FALSE),
          cache |-> (resident :> [score |-> CBScore("nice", nice[1], FALSE),
                                  cached_at |-> now]) @@ c,
          called_nice |-> TRUE, called_kcb |-> FALSE]
    ELSE IF kcb # <<>>
    THEN [score |-> CBScore("kcb", kcb[1], FALSE),
          cache |-> (resident :> [score |-> CBScore("kcb", kcb[1], FALSE),
                                  cached_at |-> now]) @@ c,
          called_nice |-> TRUE, called_kcb |-> TRUE]
    ELSE [score |-> fallback_score, cache |-> c,
          called_nice |-> TRUE, called_kcb |-> TRUE]

\* a CBService instance is created
CBNew ==
    /\ cbs' = NewCBService
    /\ UNCHANGED <<clock, store, next_id, store_up, cache, wseq, ev, q, apps, applicants,
                   scores, ews, sc_in, sc_out, audit_logs>>

\* one get_score call on the instance; last records what the call was given,
\* what the instance held for the resident, what it did and what it returned
CBGetScore(resident, nice, kcb) ==
    /\ LET res == get_score(cbs.cache, resident, clock, nice, kcb)
       IN  cbs' = [cache |-> res.cache,
                   last  |-> [resident |-> resident, nice |-> nice, kcb |-> kcb,
                              had_cached |-> cb_cached(cbs.cache, resident, clock),
                              called_nice |-> res.called_nice,
                              called_kcb |-> res.called_kcb,
                              score |-> res.score]]
    /\ UNCHANGED <<clock, store, next_id, store_up, cache, wseq, ev, q, apps, applicants,
                   scores, ews, sc_in, sc_out, audit_logs>>

\* half a cache lifetime passes between two lookups
CBAdvance ==
    /\ clock + CB_CACHE_TTL \div 2 <= MaxCBClock
    /\ clock' = clock + CB_CACHE_TTL \div 2
    /\ UNCHANGED <<store, next_id, store_up, cache, wseq, ev, q, apps, applicants,
                   scores, ews, cbs, sc_in, sc_out, audit_logs>>

(***************************************************************************)
(* The statistical PD estimate (ScoringEngine._estimate_pd_statistical).   *)
(* Log-odds are in 10^-6.  log1p and exp are tabulated at the arguments    *)
(* the modelled applicants and bureau records produce (no DSR excess).     *)
(***************************************************************************)
\* round(10^6 * 0.5 * log1p(50000 / income_won)), income in 만원
half_log1p(income_annual) ==
    CASE income_annual = 8000 -> 312
      [] income_annual = 1100 -> 2268

\* round(10^5 / (1 + exp(-log_odds)))
sigmoid(log_odds) ==
    CASE log_odds = -6359688 -> 173
      [] log_odds = -5159688 -> 571
      [] log_odds = -4199688 -> 1478
      [] log_odds = -999688 -> 26900
      [] log_odds = -6357732 -> 173
      [] log_odds = -5157732 -> 572
      [] log_odds = -4197732 -> 1481
      [] log_odds = -997732 -> 26939

pd_log_odds(inp) ==
    LET dsr_excess == Max(0, compute_dsr(inp) - 400000)
    IN  -3500000
        - (inp.cb_score - 700) * 18000
        + inp.delinquency_count_12m * 600000
        + inp.worst_delinquency_status * 800000
        + dsr_excess * 3
        + half_log1p(inp.income_annual)
        + inp.inquiry_count_3m * 300000
        - 300000            \* telecom_no_delinquency = 1
        - 400000            \* health_insurance_paid_months_12m = 12
        + (IF inp.applicant_type = "self_employed"
           THEN 300000
                + (IF inp.business_duration_months < 24 THEN 400000 ELSE 0)
                + (IF inp.tax_filing_count < 2 THEN 300000 ELSE 0)
           ELSE 0)

\* the estimate applies the IRG adjustment and clips
estimate_pd_statistical(inp) ==
    pd_final_of(sigmoid(pd_log_odds(inp)), inp.irg_pd_adjustment)

(***************************************************************************)
(* ScoringService.evaluate (scoring_service.py), one step per await.       *)
(* ev[r] is one request: its position pc, the ORM objects it works on, the *)
(* parameters resolved so far (vals) and where each came from (src).       *)
(***************************************************************************)
ApplicantProfiles ==
    {[id |-> "p1", income_annual |-> 8000, employer_eq_grade |-> "EQ-C",
      segment_code |-> "", irg_code |-> "M", applicant_type |-> "individual",
      business_duration_months |-> 0, tax_filing_count |-> 0,
      resident_registration_hash |-> "h1"],
     [id |-> "p2", income_annual |-> 8000, employer_eq_grade |-> "EQ-E",
      segment_code |-> "SEG-DR", irg_code |-> "H", applicant_type |-> "individual",
      business_duration_months |-> 0, tax_filing_count |-> 0,
      resident_registration_hash |-> "h2"]}

\* what the product step stores on a LoanApplication
ProductChoices ==
    {[product_type |-> "credit", requested_amount |-> 3000, collateral_value |-> 0,
      requested_term_months |-> 36,
      is_speculation_area |-> FALSE, is_regulated_area |-> FALSE,
      owned_property_count |-> 0, existing_loan_monthly_payment |-> 0],
     [product_type |-> "mortgage", requested_amount |-> 35000,
      collateral_value |-> 100000, requested_term_months |-> 36,
      is_speculation_area |-> TRUE, is_regulated_area |-> FALSE,
      owned_property_count |-> 2, existing_loan_monthly_payment |-> 0]}

IdleRequest ==
    [pc |-> "idle", kind |-> "none", app_id |-> 0, application |-> <<>>,
     applicant |-> <<>>, has_redis |-> FALSE, rate_type |-> "", region |-> "",
     eff |-> 0, vals |-> <<>>, src |-> <<>>, result |-> <<>>, snapshot |-> <<>>,
     inputs |-> <<>>,
     error |-> "", flushed |-> FALSE]

Free(r) == ev[r].pc \in {"idle", "done", "failed"}

\* evaluate() entered: eff_date = datetime.utcnow()
Entered(kind, app_id, application, applicant, has_redis, rate_type, region) ==
    [IdleRequest EXCEPT !.pc = "stress", !.kind = kind, !.app_id = app_id,
                        !.application = application, !.applicant = applicant,
                        !.has_redis = has_redis, !.rate_type = rate_type,
                        !.region = region, !.eff = clock]

\* a direct call of ScoringService(db, redis_client).evaluate
EvalStart(r, application, applicant, has_redis, rate_type) ==
    /\ Free(r)
    /\ ev' = [ev EXCEPT ![r] = Entered("evaluate", 0, application, applicant,
                                       has_redis, rate_type, "metropolitan")]
    /\ UNCHANGED <<clock, store, next_id, store_up, cache, wseq, q, apps, applicants, scores,
                   ews, cbs, sc_in, sc_out, audit_logs>>

\* one getter returned res: keep the value and go on, or let the store
\* failure propagate out of evaluate
Resolved(r, name, res, next_pc) ==
    /\ ev' = [ev EXCEPT ![r] =
                IF res.ok
                THEN [@ EXCEPT !.pc = next_pc,
                               !.vals = (name :> res.value) @@ @,
                               !.src = IF res.src = <<>> THEN @
                                       ELSE (name :> res.src) @@ @,
                               !.flushed = @ \/ (res.src # <<>> /\ ~res.src.from_cache)]
                ELSE [IdleRequest EXCEPT !.pc = "failed", !.kind = ev[r].kind,
                                         !.app_id = ev[r].app_id,
                                         !.error = "store_unreachable"]]
    /\ cache' = res.cache
    /\ UNCHANGED <<clock, store, next_id, store_up, wseq, q, apps, applicants, scores, ews,
                   cbs, sc_in, sc_out, audit_logs>>

EvalStress(r) ==
    /\ ev[r].pc = "stress"
    /\ Resolved(r, "stress_rate",
                get_stress_dsr_rate(ev[r].has_redis, ev[r].region, ev[r].rate_type,
                                    ev[r].eff),
                "dsr")

EvalDsr(r) ==
    /\ ev[r].pc = "dsr"
    /\ Resolved(r, "dsr_limit",
                get_dsr_limit(ev[r].has_redis, ev[r].application.product_type,
                              ev[r].eff),
                "ltv")

area_type_of(application) ==
    IF application.is_speculation_area THEN "speculation_area"
    ELSE IF application.is_regulated_area THEN "regulated"
    ELSE "general"

EvalLtv(r) ==
    /\ ev[r].pc = "ltv"
    /\ Resolved(r, "ltv_limit",
                IF ev[r].application.product_type = "mortgage"
                THEN get_ltv_limit(ev[r].has_redis, area_type_of(ev[r].application),
                                   ev[r].application.owned_property_count, ev[r].eff)
                ELSE [ok |-> TRUE, value |-> LTV_NOT_APPLICABLE, cache |-> cache,
                      src |-> <<>>],
                "max_rate")

EvalMaxRate(r) ==
    /\ ev[r].pc = "max_rate"
    /\ Resolved(r, "max_rate", get_max_interest_rate(ev[r].has_redis, ev[r].eff),
                "segment")

EvalSegment(r) ==
    /\ ev[r].pc = "segment"
    /\ Resolved(r, "seg_benefit",
                IF ev[r].applicant.segment_code # ""
                THEN get_segment_benefit(ev[r].has_redis, ev[r].applicant.segment_code,
                                         ev[r].eff)
                ELSE [ok |-> TRUE, value |-> EmptyMap, cache |-> cache, src |-> <<>>],
                "irg")

EvalIrg(r) ==
    /\ ev[r].pc = "irg"
    /\ Resolved(r, "irg_adjustment",
                get_irg_pd_adjustment(ev[r].has_redis,
                                      OrDefault(ev[r].applicant.irg_code, "M"),
                                      ev[r].eff),
                "cb")

\* eq_order.index(grade), 5 for an unknown grade
eq_index(eq_grade) ==
    CASE eq_grade = "EQ-S" -> 0
      [] eq_grade = "EQ-A" -> 1
      [] eq_grade = "EQ-B" -> 2
      [] eq_grade = "EQ-C" -> 3
      [] eq_grade = "EQ-D" -> 4
      [] OTHER -> 5

\* variant of effective_eq_grade that ignores the segment's guarantee
effective_eq_grade_own(applicant, seg_benefit) ==
    OrDefault(applicant.employer_eq_grade, "EQ-C")

\* the EQ grade evaluate hands to the engine
effective_eq_grade(applicant, seg_benefit) ==
    LET eq_grade   == OrDefault(applicant.employer_eq_grade, "EQ-C")
        guaranteed == Get(seg_benefit, "guaranteed_eq_grade", "")
    IN  IF applicant.segment_code # "" /\ guaranteed # ""
           /\ eq_index(guaranteed) < eq_index(eq_grade)
        THEN guaranteed
        ELSE eq_grade

\* the ScoringInput evaluate assembles
scoring_input(req, cb) ==
    [product_type |-> req.application.product_type,
     requested_amount |-> req.application.requested_amount,
     requested_term_months |-> IF req.application.requested_term_months = 0 THEN 36
                               ELSE req.application.requested_term_months,
     applicant_type |-> req.applicant.applicant_type,
     income_annual |-> req.applicant.income_annual,
     cb_score |-> cb.cb_score,
     delinquency_count_12m |-> cb.delinquency_count_12m,
     worst_delinquency_status |-> cb.worst_delinquency_status,
     inquiry_count_3m |-> cb.inquiry_count_3m,
     segment_code |-> req.applicant.segment_code,
     eq_grade |-> effective_eq_grade(req.applicant, req.vals.seg_benefit),
     irg_code |-> OrDefault(req.applicant.irg_code, "M"),
     irg_pd_adjustment |-> req.vals.irg_adjustment,
     collateral_value |-> req.application.collateral_value,
     existing_monthly_payment |-> req.application.existing_loan_monthly_payment,
     business_duration_months |-> req.applicant.business_duration_months,
     tax_filing_count |-> req.applicant.tax_filing_count]

\* the part of a ScoringInput that is read from the application and the
\* applicant rows
application_inputs(inp) ==
    [product_type |-> inp.product_type,
     requested_amount |-> inp.requested_amount,
     requested_term_months |-> inp.requested_term_months,
     applicant_type |-> inp.applicant_type,
     income_annual |-> inp.income_annual,
     segment_code |-> inp.segment_code,
     collateral_value |-> inp.collateral_value,
     existing_monthly_payment |-> inp.existing_monthly_payment,
     business_duration_months |-> inp.business_duration_months,
     tax_filing_count |-> inp.tax_filing_count]

regulation_snapshot(req, inp, cb) ==
    [effective_date |-> req.eff,
     stress_dsr_rate |-> req.vals.stress_rate,
     stress_dsr_region |-> req.region,
     rate_type |-> req.rate_type,
     dsr_limit |-> req.vals.dsr_limit,
     ltv_limit |-> req.vals.ltv_limit,
     max_rate |-> req.vals.max_rate,
     eq_grade |-> inp.eq_grade,
     irg_code |-> inp.irg_code,
     irg_adjustment |-> req.vals.irg_adjustment,
     cb_source |-> cb.source,
     cb_score |-> cb.cb_score,
     cb_is_fallback |-> cb.is_fallback]

\* the bureau lookup on a fresh CBService, the engine run and the snapshot
EvalScore(r, nice, kcb) ==
    /\ ev[r].pc = "cb"
    /\ LET cb  == get_score(<<>>, ev[r].applicant.resident_registration_hash,
                            clock, nice, kcb).score
           inp == scoring_input(ev[r], cb)
       IN  ev' = [ev EXCEPT ![r].pc = "scored",
                            ![r].result =
                                engine_score(inp, estimate_pd_statistical(inp),
                                             ev[r].vals.dsr_limit,
                                             ev[r].vals.stress_rate,
                                             ev[r].vals.ltv_limit,
                                             ev[r].vals.max_rate, BASE_RATE),
                            ![r].snapshot = regulation_snapshot(ev[r], inp, cb),
                            ![r].inputs = application_inputs(inp)]
    /\ UNCHANGED <<clock, store, next_id, store_up, cache, wseq, q, apps, applicants, scores,
                   ews, cbs, sc_in, sc_out, audit_logs>>

\* the caller of a direct evaluate takes the result
EvalReturn(r) ==
    /\ ev[r].pc = "scored"
    /\ ev[r].kind = "evaluate"
    /\ ev' = [ev EXCEPT ![r] = [IdleRequest EXCEPT !.pc = "done", !.kind = "evaluate"]]
    /\ UNCHANGED <<clock, store, next_id, store_up, cache, wseq, q, apps, applicants, scores,
                   ews, cbs, sc_in, sc_out, audit_logs>>

\* the database becomes unreachable / reachable again
StoreDown ==
    /\ store_up
    /\ store_up' = FALSE
    /\ UNCHANGED <<clock, store, next_id, cache, wseq, ev, q, apps, applicants, scores, ews,
                   cbs, sc_in, sc_out, audit_logs>>

StoreUp ==
    /\ ~store_up
    /\ store_up' = TRUE
    /\ UNCHANGED <<clock, store, next_id, cache, wseq, ev, q, apps, applicants, scores, ews,
                   cbs, sc_in, sc_out, audit_logs>>

(***************************************************************************)
(* The application flow (applications.py) and the early-warning processor  *)
(* (ews_consumer.py).  Handlers that only read, and requests a handler     *)
(* answers with 4xx before writing, change nothing and are left out.       *)
(***************************************************************************)
MaxApps == 1                \* applications started per behaviour
MaxScores == 2              \* credit_scores rows per behaviour

\* POST /applications/start
start_application(product_type) ==
    /\ store_up
    /\ Len(apps) < MaxApps
    /\ apps' = Append(apps,
          [applicant_id |-> NoApplicant, product_type |-> product_type,
           requested_amount |-> 0, requested_term_months |-> 0,
           collateral_value |-> 0,
           is_speculation_area |-> FALSE, is_regulated_area |-> FALSE,
           owned_property_count |-> 0, existing_loan_monthly_payment |-> 0,
           application_step |-> "consent", status |-> "pending",
           esign_completed |-> FALSE, regulation_snapshot |-> <<>>,
           eq_grade_applied |-> "", segment_code_applied |-> ""])
    /\ UNCHANGED <<clock, store, next_id, store_up, cache, wseq, ev, q, applicants,
                   scores, ews, cbs, sc_in, sc_out, audit_logs>>

\* POST /applications/{id}/consent with cb_consent given
submit_consent(app_id) ==
    /\ store_up
    /\ app_id \in DOMAIN apps
    /\ apps' = [apps EXCEPT ![app_id].application_step = "applicant_info"]
    /\ UNCHANGED <<clock, store, next_id, store_up, cache, wseq, ev, q, applicants,
                   scores, ews, cbs, sc_in, sc_out, audit_logs>>

\* ApplicantInfoRequest bodies; license_segment is what _verify_segment
\* answers for the licence sent ("" when none is sent or it is not verified)
ApplicantInfoRequests ==
    {[resident_registration_hash |-> "h1", age |-> 45, income_annual |-> 8000,
      applicant_type |-> "individual", has_license |-> FALSE, license_segment |-> ""],
     [resident_registration_hash |-> "h2", age |-> 45, income_annual |-> 8000,
      applicant_type |-> "individual", has_license |-> TRUE,
      license_segment |-> "SEG-DR"]}

\* the segment_code local of submit_applicant_info
segment_of(req) ==
    LET verified == IF req.has_license THEN req.license_segment ELSE ""
    IN  IF verified = "" /\ 19 <= req.age /\ req.age <= 34 THEN "SEG-YTH"
        ELSE verified

\* POST /applications/{id}/applicant: find the applicant by resident hash or
\* create it, set its segment, link it to the application if that exists
submit_applicant_info(app_id, req) ==
    /\ store_up
    /\ LET found == {i \in DOMAIN applicants :
                       applicants[i].resident_registration_hash
                         = req.resident_registration_hash}
           id    == IF found = {} THEN Len(applicants) + 1
                    ELSE CHOOSE i \in found : TRUE
           row   == IF found = {}
                    THEN [resident_registration_hash |-> req.resident_registration_hash,
                          income_annual |-> req.income_annual,
                          applicant_type |-> req.applicant_type,
                          segment_code |-> "", employer_eq_grade |-> "",
                          irg_code |-> "", business_duration_months |-> 0,
                          tax_filing_count |-> 0]
                    ELSE applicants[id]
           seg   == IF req.has_license \/ segment_of(req) = "SEG-YTH"
                    THEN segment_of(req) ELSE row.segment_code
           saved == [row EXCEPT !.segment_code = seg]
       IN  /\ applicants' = IF found = {} THEN Append(applicants, saved)
                            ELSE [applicants EXCEPT ![id] = saved]
           /\ apps' = IF app_id \in DOMAIN apps
                      THEN [apps EXCEPT ![app_id].applicant_id = id,
                                        ![app_id].application_step = "financial_info",
                                        ![app_id].segment_code_applied = segment_of(req)]
                      ELSE apps
    /\ UNCHANGED <<clock, store, next_id, store_up, cache, wseq, ev, q, scores, ews,
                   cbs, sc_in, sc_out, audit_logs>>

\* POST /applications/{id}/financial
submit_financial_info(app_id, req) ==
    /\ store_up
    /\ app_id \in DOMAIN apps
    /\ apps' = [apps EXCEPT
          ![app_id].existing_loan_monthly_payment = req.existing_loan_monthly_payment,
          ![app_id].collateral_value = req.collateral_value,
          ![app_id].is_regulated_area = req.is_regulated_area,
          ![app_id].is_speculation_area = req.is_speculation_area,
          ![app_id].owned_property_count = req.owned_property_count,
          ![app_id].application_step = "product_select"]
    /\ UNCHANGED <<clock, store, next_id, store_up, cache, wseq, ev, q, applicants,
                   scores, ews, cbs, sc_in, sc_out, audit_logs>>

\* POST /applications/{id}/product
submit_product_selection(app_id, requested_amount, requested_term_months) ==
    /\ store_up
    /\ app_id \in DOMAIN apps
    /\ apps' = [apps EXCEPT ![app_id].requested_amount = requested_amount,
                            ![app_id].requested_term_months = requested_term_months,
                            ![app_id].application_step = "review"]
    /\ UNCHANGED <<clock, store, next_id, store_up, cache, wseq, ev, q, applicants,
                   scores, ews, cbs, sc_in, sc_out, audit_logs>>

\* requests that are working on application app_id and have flushed their
\* session: they hold the row's lock until they commit or roll back
Locked(app_id) ==
    \E r \in DOMAIN ev :
        /\ ev[r].kind = "submit"
        /\ ev[r].app_id = app_id
        /\ ev[r].pc \notin {"idle", "done", "failed"}
        /\ ev[r].flushed

\* POST /applications/{id}/submit with final_confirm and a valid e-sign
\* token, up to the first await inside evaluate: both rows are loaded, the
\* session's copy of the application is marked under_review, and
\* ScoringService(db), a service without a Redis client, starts evaluating
submit_application(r, app_id, rate_type, region) ==
    /\ Free(r)
    /\ store_up
    /\ Len(scores) < MaxScores
    /\ app_id \in DOMAIN apps
    /\ apps[app_id].applicant_id \in DOMAIN applicants
    /\ ~Locked(app_id)
    /\ ev' = [ev EXCEPT ![r] =
                Entered("submit", app_id,
                        [apps[app_id] EXCEPT !.esign_completed = TRUE,
                                             !.application_step = "submit",
                                             !.status = "under_review"],
                        applicants[apps[app_id].applicant_id],
                        FALSE, rate_type, region)]
    /\ UNCHANGED <<clock, store, next_id, store_up, cache, wseq, q, apps, applicants,
                   scores, ews, cbs, sc_in, sc_out, audit_logs>>

\* the rest of submit_application: the CreditScore row, the decision as the
\* application's status, one commit; a failing commit rolls everything back
submit_commit(r) ==
    /\ ev[r].pc = "scored"
    /\ ev[r].kind = "submit"
    /\ IF store_up
       THEN /\ scores' = Append(scores,
                   [application_id |-> ev[r].app_id,
                    score |-> ev[r].result.score,
                    decision |-> ev[r].result.decision,
                    approved_amount_won |-> ev[r].result.approved_amount_won,
                    approved_rate |-> ev[r].result.rate_breakdown.final_rate,
                    dsr_limit_breached |-> ev[r].result.dsr_limit_breached,
                    ltv_limit_breached |-> ev[r].result.ltv_limit_breached,
                    rejection_reason |-> ev[r].result.rejection_reasons,
                    appeal_deadline |-> ev[r].result.appeal_deadline,
                    scored_at |-> clock,
                    \* history: what this evaluation read and recorded
                    evaluated |-> ev[r].inputs,
                    regulation_snapshot |-> ev[r].snapshot])
            /\ apps' = [apps EXCEPT
                   ![ev[r].app_id].esign_completed = TRUE,
                   ![ev[r].app_id].application_step = "submit",
                   ![ev[r].app_id].status = ev[r].result.decision,
                   ![ev[r].app_id].regulation_snapshot = ev[r].snapshot,
                   ![ev[r].app_id].eq_grade_applied =
                        OrDefault(ev[r].applicant.employer_eq_grade, "EQ-C"),
                   ![ev[r].app_id].segment_code_applied = ev[r].applicant.segment_code]
            /\ ev' = [ev EXCEPT ![r] = [IdleRequest EXCEPT !.pc = "done",
                                                           !.kind = "submit",
                                                           !.app_id = ev[r].app_id]]
       ELSE /\ ev' = [ev EXCEPT ![r] = [IdleRequest EXCEPT !.pc = "failed",
                                                           !.kind = "submit",
                                                           !.app_id = ev[r].app_id,
                                                           !.error = "store_unreachable"]]
            /\ UNCHANGED <<apps, scores>>
    /\ UNCHANGED <<clock, store, next_id, store_up, cache, wseq, q, applicants, ews,
                   cbs, sc_in, sc_out, audit_logs>>

\* variant of the cancelled submit in which closing the session writes the
\* changes it holds
submit_cancelled_flushing(r) ==
    /\ ev[r].kind = "submit"
    /\ ev[r].pc \notin {"idle", "done", "failed"}
    /\ ev' = [ev EXCEPT ![r] = [IdleRequest EXCEPT !.pc = "failed", !.kind = "submit",
                                                   !.app_id = ev[r].app_id,
                                                   !.error = "cancelled"]]
    /\ apps' = [apps EXCEPT ![ev[r].app_id] = ev[r].application]
    /\ UNCHANGED <<clock, store, next_id, store_up, cache, wseq, q, applicants,
                   scores, ews, cbs, sc_in, sc_out, audit_logs>>

\* the submit request is cancelled while it waits (a parameter read, the
\* bureau call, the commit): CancelledError leaves the handler, get_db closes
\* the session, and the open transaction is rolled back
submit_cancelled(r) ==
    /\ ev[r].kind = "submit"
    /\ ev[r].pc \notin {"idle", "done", "failed"}
    /\ ev' = [ev EXCEPT ![r] = [IdleRequest EXCEPT !.pc = "failed", !.kind = "submit",
                                                   !.app_id = ev[r].app_id,
                                                   !.error = "cancelled"]]
    /\ UNCHANGED <<clock, store, next_id, store_up, cache, wseq, q, apps, applicants,
                   scores, ews, cbs, sc_in, sc_out, audit_logs>>

\* UPDATE loan_applications SET status = ... WHERE applicant_id = ...
set_status_of(applicant_id, status) ==
    [a \in DOMAIN apps |->
        IF apps[a].applicant_id = applicant_id
        THEN [apps[a] EXCEPT !.status = status]
        ELSE apps[a]]

\* the UPDATE waits while a request holds the lock of a row it touches
EwsBlocked(applicant_id) ==
    \E a \in DOMAIN apps : apps[a].applicant_id = applicant_id /\ Locked(a)

\* EWSProcessor._handle_red, step 1: _freeze_credit_limit; its exception is
\* logged and swallowed
ews_freeze_credit_limit(applicant_id) ==
    /\ ews.pc = "idle"
    /\ ~EwsBlocked(applicant_id)
    /\ ews' = [pc |-> "frozen", applicant_id |-> applicant_id]
    /\ apps' = IF store_up THEN set_status_of(applicant_id, "suspended") ELSE apps
    /\ UNCHANGED <<clock, store, next_id, store_up, cache, wseq, ev, q, applicants,
                   scores, cbs, sc_in, sc_out, audit_logs>>

\* EWSProcessor._handle_red, step 3: _set_manual_review; its exception is
\* logged and swallowed
ews_set_manual_review ==
    /\ ews.pc = "frozen"
    /\ ~EwsBlocked(ews.applicant_id)
    /\ ews' = EwsIdle
    /\ apps' = IF store_up THEN set_status_of(ews.applicant_id, "manual_review")
               ELSE apps
    /\ UNCHANGED <<clock, store, next_id, store_up, cache, wseq, ev, q, applicants,
                   scores, cbs, sc_in, sc_out, audit_logs>>

(***************************************************************************)
(* MonitoringEngine (monitoring_engine.py).  A report is modelled by the    *)
(* keys of the returned dict, the sample counts in it, and, as history,     *)
(* whether it was computed from synthetic data; the statistics themselves   *)
(* (PSI, ECE, Brier score) are left out.  db is what the queries would      *)
(* find: row counts per window, or a failing query, or no session at all.   *)
(***************************************************************************)
\* PSIResult.to_dict and CalibrationResult.to_dict
PSI_KEYS == {"value", "status", "n_reference", "n_current", "bins"}
CALIBRATION_KEYS ==
    {"ece", "brier_score", "ece_status", "n_bins", "n_samples", "reliability_diagram",
     "target_ece", "target_brier"}

demo_score_psi ==
    [keys |-> PSI_KEYS, n_reference |-> 10000, n_current |-> 3000, synthetic |-> TRUE]

demo_calibration ==
    [keys |-> CALIBRATION_KEYS, n_samples |-> 5000, synthetic |-> TRUE]

demo_feature_psi(feature_names) ==
    [f \in feature_names |->
        [keys |-> {"psi", "status", "data_source"}, data_source |-> "demo",
         synthetic |-> TRUE]]

compute_score_psi_from_db(db) ==
    IF ~db.has_db \/ ~db.query_ok THEN demo_score_psi
    ELSE IF db.ref_rows = 0 \/ db.cur_rows = 0 THEN demo_score_psi
    ELSE [keys |-> PSI_KEYS, n_reference |-> db.ref_rows, n_current |-> db.cur_rows,
          synthetic |-> FALSE]

compute_calibration_from_db(db) ==
    IF ~db.has_db \/ ~db.query_ok THEN demo_calibration
    ELSE IF db.outcomes < 100 THEN demo_calibration
    ELSE [keys |-> CALIBRATION_KEYS, n_samples |-> db.outcomes, synthetic |-> FALSE]

compute_feature_psi_from_db(db, feature_names) ==
    IF ~db.has_db \/ ~db.query_ok THEN demo_feature_psi(feature_names)
    ELSE [f \in feature_names |->
            IF f = "dsr_ratio" /\ db.ref_dsr >= 10 /\ db.cur_dsr >= 10
            THEN [keys |-> {"psi", "status", "data_source"}, data_source |-> "database",
                  synthetic |-> FALSE]
            ELSE demo_feature_psi(feature_names)[f]]

full_report(db, feature_names) ==
    [keys |-> {"computed_at", "model_version", "overall_status", "score_psi",
               "feature_psi", "calibration", "rca_required", "message"},
     score_psi |-> compute_score_psi_from_db(db),
     calibration |-> compute_calibration_from_db(db),
     feature_psi |-> IF feature_names # {}
                     THEN compute_feature_psi_from_db(db, feature_names) ELSE <<>>,
     synthetic |-> \/ compute_score_psi_from_db(db).synthetic
                   \/ compute_calibration_from_db(db).synthetic]

MonCases ==
    [db : [has_db : BOOLEAN, query_ok : BOOLEAN, ref_rows : {0, 200}, cur_rows : {0, 50},
           outcomes : {0, 99, 100}, ref_dsr : {9, 10}, cur_dsr : {9, 10}],
     feature_names : {{}, {"dsr_ratio", "income_annual"}}]

\* one call of the engine; sc_out holds which report was asked and the report
MonReturn(kind, report) ==
    /\ sc_out = <<>>
    /\ sc_out' = <<[kind |-> kind, report |-> report]>>
    /\ UNCHANGED <<clock, store, next_id, store_up, cache, wseq, ev, q, apps,
                   applicants, scores, ews, cbs, sc_in, audit_logs>>

MonScorePsi == MonReturn("score_psi", compute_score_psi_from_db(sc_in.db))
MonCalibration == MonReturn("calibration", compute_calibration_from_db(sc_in.db))
MonFeaturePsi ==
    MonReturn("feature_psi", compute_feature_psi_from_db(sc_in.db, sc_in.feature_names))
MonFullReport == MonReturn("full_report", full_report(sc_in.db, sc_in.feature_names))

InitMon ==
    /\ sc_in \in MonCases
    /\ sc_out = <<>>
    /\ IdleRest

NextMon == MonScorePsi \/ MonCalibration \/ MonFeaturePsi \/ MonFullReport

SpecMon == InitMon /\ [][NextMon]_vars

(***************************************************************************)
(* Specification of the parameter table: seed, admin writes, direct        *)
(* lookups                                                                 *)
(***************************************************************************)
StressKey == <<"stress_dsr", "metropolitan", "variable">>

\* ParamCreateRequest bodies the administrators send
CreateRequests ==
    [param_key : {StressKey},
     param_value : {[rate |-> 20000]},
     condition_json : {EmptyMap, [region |-> "metropolitan"]},
     effective_from : {PHASE2_DATE + 1},
     effective_to : {<<>>},
     approved_by : Users,
     change_reason : {"rate update"}]

\* condition_match arguments of direct lookups
QueryConditions ==
    {EmptyMap,
     [region |-> "metropolitan"],
     [region |-> "metropolitan", rate_type |-> "variable"],
     [region |-> "metropolitan", rate_type |-> "variable", product |-> "mortgage"]}

InitClock == PHASE2_DATE + 1

InitStoreVars ==
    /\ clock = InitClock
    /\ store = {}
    /\ next_id = 1
    /\ store_up = TRUE
    /\ wseq = [k \in ParamKeys |-> 0]
    /\ q = <<>>

InitStore ==
    /\ InitStoreVars
    /\ cache = <<>> /\ ev = <<>> /\ apps = <<>> /\ applicants = <<>> /\ scores = <<>>
    /\ ews = EwsIdle /\ cbs = NewCBService /\ sc_in = <<>> /\ sc_out = <<>>
    /\ audit_logs = <<>>

NextStore ==
    \/ seed_regulation_params
    \/ \E actor \in Users, req \in CreateRequests :
          create_regulation_param(actor, req)
    \/ \E row \in store :
          row.param_key = StressKey /\ deactivate_regulation_param(row.id)
    \/ \E key \in {StressKey, <<"dsr", "max_ratio">>},
          cond \in QueryConditions, eff \in {PHASE2_DATE + 1, PHASE3_DATE + 1} :
          QueryParam(key, cond, eff)
    \/ Tick

SpecStore == InitStore /\ [][NextStore]_vars

(***************************************************************************)
(* Specification of parameter resolution: evaluations on an engine with a  *)
(* Redis client, admin writes, the clock crossing the phase-3 date, store  *)
(* outages                                                                 *)
(***************************************************************************)
\* the table as the start-up seed leaves it
InitParam ==
    /\ clock = InitClock
    /\ store = SeedRows({}, 1)
    /\ next_id = 1 + Len(SEED_PARAMS)
    /\ store_up = TRUE
    /\ wseq = [k \in ParamKeys |-> 0]
    /\ q = <<>>
    /\ cache = <<>>
    /\ ev = [r \in {1} |-> IdleRequest]
    /\ apps = <<>> /\ applicants = <<>> /\ scores = <<>>
    /\ ews = EwsIdle /\ cbs = NewCBService /\ sc_in = <<>> /\ sc_out = <<>>
    /\ audit_logs = <<>>

NextParam ==
    \/ \E req \in CreateRequests :
          /\ req.condition_json = EmptyMap
          /\ req.approved_by = "risk_b"
          /\ create_regulation_param("risk_a", req)
    \/ \E row \in store :
          row.param_key = StressKey /\ deactivate_regulation_param(row.id)
    \/ Tick
    \/ StoreDown
    \/ StoreUp
    \/ \E r \in DOMAIN ev, application \in ProductChoices, applicant \in ApplicantProfiles,
          has_redis \in BOOLEAN :
          /\ application.product_type = "mortgage"
          /\ applicant.segment_code # ""
          /\ EvalStart(r, application, applicant, has_redis, "variable")
    \/ \E r \in DOMAIN ev : EvalStress(r)
    \/ \E r \in DOMAIN ev : EvalDsr(r)
    \/ \E r \in DOMAIN ev : EvalLtv(r)
    \/ \E r \in DOMAIN ev : EvalMaxRate(r)
    \/ \E r \in DOMAIN ev : EvalSegment(r)
    \/ \E r \in DOMAIN ev : EvalIrg(r)
    \/ \E r \in DOMAIN ev, nice \in BureauAnswers, kcb \in BureauAnswers :
          EvalScore(r, nice, kcb)
    \/ \E r \in DOMAIN ev : EvalReturn(r)

SpecParam == InitParam /\ [][NextParam]_vars

(***************************************************************************)
(* Specification of the application flow: one application through its      *)
(* steps, submits, early-warning RED alerts, store outages                 *)
(***************************************************************************)
InitApp ==
    /\ clock = InitClock
    /\ store = SeedRows({}, 1)
    /\ next_id = 1 + Len(SEED_PARAMS)
    /\ store_up = TRUE
    /\ wseq = [k \in ParamKeys |-> 0]
    /\ q = <<>>
    /\ cache = <<>>
    /\ ev = [r \in {1} |-> IdleRequest]
    /\ apps = <<>> /\ applicants = <<>> /\ scores = <<>>
    /\ ews = EwsIdle
    /\ cbs = NewCBService /\ sc_in = <<>> /\ sc_out = <<>>
    /\ audit_logs = <<>>

NextApp ==
    \/ \E product_type \in {"credit", "mortgage"} : start_application(product_type)
    \/ \E app_id \in DOMAIN apps : submit_consent(app_id)
    \/ \E app_id \in DOMAIN apps, req \in ApplicantInfoRequests :
          /\ req.has_license
          /\ submit_applicant_info(app_id, req)
    \/ \E app_id \in DOMAIN apps, req \in ProductChoices :
          /\ req.product_type = apps[app_id].product_type
          /\ submit_financial_info(app_id, req)
    \/ \E app_id \in DOMAIN apps, req \in ProductChoices :
          /\ req.product_type = apps[app_id].product_type
          /\ submit_product_selection(app_id, req.requested_amount,
                                      req.requested_term_months)
    \/ \E r \in DOMAIN ev, app_id \in DOMAIN apps :
          submit_application(r, app_id, "variable", "metropolitan")
    \/ \E r \in DOMAIN ev : EvalStress(r)
    \/ \E r \in DOMAIN ev : EvalDsr(r)
    \/ \E r \in DOMAIN ev : EvalLtv(r)
    \/ \E r \in DOMAIN ev : EvalMaxRate(r)
    \/ \E r \in DOMAIN ev : EvalSegment(r)
    \/ \E r \in DOMAIN ev : EvalIrg(r)
    \/ \E r \in DOMAIN ev, nice \in BureauAnswers : EvalScore(r, nice, <<>>)
    \/ \E r \in DOMAIN ev : submit_commit(r)
    \/ \E applicant_id \in DOMAIN applicants : ews_freeze_credit_limit(applicant_id)
    \/ ews_set_manual_review
    \/ StoreDown
    \/ StoreUp
    \/ Tick

SpecApp == InitApp /\ [][NextApp]_vars

(***************************************************************************)
(* Specification of the submit request alone: one application that has     *)
(* been through the applicant and product steps is submitted again and      *)
(* again; a submit runs to its commit, fails on an unreachable store, or is *)
(* cancelled                                                                *)
(***************************************************************************)
\* the applicants row submit_applicant_info creates for req
NewApplicant(req) ==
    [resident_registration_hash |-> req.resident_registration_hash,
     income_annual |-> req.income_annual,
     applicant_type |-> req.applicant_type,
     segment_code |-> segment_of(req), employer_eq_grade |-> "",
     irg_code |-> "", business_duration_months |-> 0,
     tax_filing_count |-> 0]

\* the loan_applications row after start, applicant, financial and product
\* steps with choice, linked to applicant 1
ReviewedApplication(req, choice) ==
    [applicant_id |-> 1, product_type |-> choice.product_type,
     requested_amount |-> choice.requested_amount,
     requested_term_months |-> choice.requested_term_months,
     collateral_value |-> choice.collateral_value,
     is_speculation_area |-> choice.is_speculation_area,
     is_regulated_area |-> choice.is_regulated_area,
     owned_property_count |-> choice.owned_property_count,
     existing_loan_monthly_payment |-> choice.existing_loan_monthly_payment,
     application_step |-> "review", status |-> "pending",
     esign_completed |-> FALSE, regulation_snapshot |-> <<>>,
     eq_grade_applied |-> "", segment_code_applied |-> segment_of(req)]

InitSubmit ==
    /\ clock = InitClock
    /\ store = SeedRows({}, 1)
    /\ next_id = 1 + Len(SEED_PARAMS)
    /\ store_up = TRUE
    /\ wseq = [k \in ParamKeys |-> 0]
    /\ q = <<>>
    /\ cache = <<>>
    /\ ev = [r \in {1} |-> IdleRequest]
    /\ \E req \in ApplicantInfoRequests, choice \in ProductChoices :
          /\ applicants = <<NewApplicant(req)>>
          /\ apps = <<ReviewedApplication(req, choice)>>
    /\ scores = <<>>
    /\ ews = EwsIdle
    /\ cbs = NewCBService /\ sc_in = <<>> /\ sc_out = <<>>
    /\ audit_logs = <<>>

NextSubmit ==
    \/ \E r \in DOMAIN ev, app_id \in DOMAIN apps, rate_type \in {"variable", "fixed"} :
          submit_application(r, app_id, rate_type, "metropolitan")
    \/ \E r \in DOMAIN ev : EvalStress(r)
    \/ \E r \in DOMAIN ev : EvalDsr(r)
    \/ \E r \in DOMAIN ev : EvalLtv(r)
    \/ \E r \in DOMAIN ev : EvalMaxRate(r)
    \/ \E r \in DOMAIN ev : EvalSegment(r)
    \/ \E r \in DOMAIN ev : EvalIrg(r)
    \/ \E r \in DOMAIN ev, nice \in BureauAnswers : EvalScore(r, nice, <<>>)
    \/ \E r \in DOMAIN ev : submit_commit(r)
    \/ \E r \in DOMAIN ev : submit_cancelled(r)
    \/ StoreDown
    \/ StoreUp

SpecSubmit == InitSubmit /\ [][NextSubmit]_vars

(***************************************************************************)
(* Specification of the bureau lookup: instances of CBService, lookups on  *)
(* them for two residents under every combination of bureau answers, time  *)
(***************************************************************************)
InitCB ==
    /\ clock = 0
    /\ store = {} /\ next_id = 1 /\ store_up = TRUE
    /\ cache = <<>> /\ wseq = <<>> /\ ev = <<>> /\ q = <<>>
    /\ apps = <<>> /\ applicants = <<>> /\ scores = <<>>
    /\ ews = EwsIdle /\ cbs = NewCBService /\ sc_in = <<>> /\ sc_out = <<>>
    /\ audit_logs = <<>>

NextCB ==
    \/ CBNew
    \/ \E resident \in {"h1", "h2"}, nice \in BureauAnswers, kcb \in BureauAnswers :
          CBGetScore(resident, nice, kcb)
    \/ CBAdvance

SpecCB == InitCB /\ [][NextCB]_vars

C2_Candidates(rows, param_key, eff, condition_match) ==
    {r \in rows :
        /\ r.param_key = param_key
        /\ r.is_active
        /\ r.effective_from <= eff
        /\ (r.effective_to = <<>> \/ r.effective_to[1] >= eff)
        /\ (condition_match # EmptyMap =>
               \A k \in DOMAIN r.condition_json :
                  /\ k \in DOMAIN condition_match
                  /\ condition_match[k] = r.condition_json[k])}

\* C2: a lookup returns the value of the candidate row with the greatest
\* effective_from (active, window containing effective_at inclusively, row
\* condition a subset of the caller's map), and absent only when there is no
\* candidate.
C2_ResolveContract ==
    [][q' # q =>
         LET cand == C2_Candidates(store, q'.param_key, q'.effective_date,
                                   q'.condition_match)
         IN  IF cand = {} THEN q'.result = NoValue
             ELSE \E r \in cand :
                     /\ \A o \in cand : o.effective_from <= r.effective_from
                     /\ q'.result = <<r.param_value>>]_vars

\* C3: no stored row has approved_by equal to created_by, seed rows included.
C3_FourEyes ==
    \A r \in store : r.approved_by # r.created_by

\* C4: a store failure during a resolution never surfaces: no evaluation
\* ends in the store's error.
C4_StoreFailureAbsorbed ==
    \A r \in DOMAIN ev :
        ~(ev[r].pc = "failed" /\ ev[r].error = "store_unreachable")

\* C5: a value served from the cache was written by a resolution of the same
\* param_key at the same effective_at (minute bucket).
C5_CacheKeyedByDate ==
    \A r \in DOMAIN ev : \A n \in DOMAIN ev[r].src :
        ev[r].src[n].from_cache =>
            /\ ev[r].src[n].param_key = ev[r].src[n].for_key
            /\ ev[r].src[n].asof = ev[r].eff

\* C6: a value served from the cache was cached after the last committed
\* write to its param_key.
C6_WriteInvalidates ==
    \A r \in DOMAIN ev : \A n \in DOMAIN ev[r].src :
        ev[r].src[n].from_cache => ev[r].src[n].wver = ev[r].src[n].wnow

\* C7: the parameter values of a finished evaluation were all resolved for
\* the effective_at captured at its start.
C7_SingleEffectiveDate ==
    \A r \in DOMAIN ev :
        ev[r].pc = "scored" =>
            \A n \in DOMAIN ev[r].src : ev[r].src[n].asof = ev[r].snapshot.effective_date

\* C8: a status only moves forward, pending -> under_review -> {approved,
\* rejected, manual_review}; from a decided status the only change is to
\* suspended.
C8_StatusForwardOnly ==
    [][\A a \in DOMAIN apps :
          LET old == apps[a].status
              new == apps'[a].status
              Decided == {"approved", "rejected", "manual_review"}
          IN  new # old =>
                \/ new = "suspended"
                \/ old = "suspended"
                \/ old = "pending" /\ new \in {"under_review"} \cup Decided
                \/ old = "under_review" /\ new \in Decided]_vars

\* C9: once an application is suspended its status never changes again.
C9_SuspendedTerminal ==
    [][\A a \in DOMAIN apps :
          apps[a].status = "suspended" => apps'[a].status = "suspended"]_vars

\* C10: a lookup returns the NICE record whenever NICE answers, a cached
\* record only after both NICE and KCB were called and failed, and the
\* conservative default only when neither bureau answers and nothing is cached.
C10_LookupOrder ==
    cbs.last # <<>> =>
        LET l == cbs.last
        IN  /\ l.nice # <<>> => l.score = CBScore("nice", l.nice[1], FALSE)
            /\ l.score.source = "cached" =>
                  /\ l.called_nice /\ l.called_kcb
                  /\ l.nice = <<>> /\ l.kcb = <<>>
            /\ l.score.is_fallback =>
                  /\ l.score = fallback_score
                  /\ l.nice = <<>> /\ l.kcb = <<>> /\ ~l.had_cached

\* C11: a rejected result carries between one and three rejection reasons,
\* whichever gates triggered.
C11_ReasonCount ==
    sc_out # <<>> /\ sc_out[1].decision = "rejected" =>
        /\ Len(sc_out[1].rejection_reasons) >= 1
        /\ Len(sc_out[1].rejection_reasons) <= 3

\* a rejection in which all five gates hold at once
C11_Witness ==
    /\ sc_out # <<>>
    /\ sc_out[1].decision = "rejected"
    /\ sc_in.inp.worst_delinquency_status >= 2
    /\ sc_out[1].score < 450
    /\ sc_out[1].dsr_limit_breached
    /\ sc_out[1].ltv_limit_breached
    /\ sc_in.inp.income_annual < 1200
    /\ Len(sc_out[1].rejection_reasons) = 3

\* C12: a stored result that is rejected or manual_review has appeal_deadline
\* = scored_at + 30 days; an approved one has none.
C12_AppealDeadline ==
    \A i \in DOMAIN scores :
        IF scores[i].decision \in {"rejected", "manual_review"}
        THEN scores[i].appeal_deadline = <<scores[i].scored_at + 43200>>
        ELSE scores[i].appeal_deadline = <<>>

\* C13: an approved result has approved_amount > 0 and no rejection reasons,
\* whatever state the application was in when it was evaluated.
C13_ApprovedAmountPositive ==
    \A i \in DOMAIN scores :
        scores[i].decision = "approved" =>
            /\ scores[i].approved_amount_won > 0
            /\ scores[i].rejection_reason = <<>>

\* C14: the final rate of a breakdown never exceeds the statutory cap it was
\* computed with, whatever the base rate, PD, product, EQ grade and segment.
C14_RateCapped ==
    sc_out # <<>> => sc_out[1].final_rate <= sc_in.max_rate

\* the gates of is_hard_reject other than the DSR gate
C15_OtherGate(inp, res, ltv_limit) ==
    \/ inp.worst_delinquency_status >= 2
    \/ res.score < CUTOFF_REJECT
    \/ res.ltv_ratio > ltv_limit
    \/ inp.income_annual < INCOME_FLOOR

\* C15: two engine runs that differ only in the stress add-on give the same
\* decision and approved amount, and a run whose stress DSR is above the DSR
\* limit while its DSR is not is rejected only if another gate holds.
C15_StressInformational ==
    sc_out # <<>> =>
        /\ sc_out[1].decision = sc_out[2].decision
        /\ sc_out[1].approved_amount_won = sc_out[2].approved_amount_won
        /\ \A i \in {1, 2} :
              (/\ sc_out[i].stress_dsr_ratio > sc_in.dsr_limit
               /\ compute_dsr(sc_in.inp) <= sc_in.dsr_limit
               /\ sc_out[i].decision = "rejected")
              => C15_OtherGate(sc_in.inp, sc_out[i],
                               service_ltv_limit(sc_in.inp.product_type, sc_in.ltv_limit))

\* an approved run whose stress DSR is above the limit, next to a run of the
\* same input whose stress DSR is below it
C15_Witness ==
    /\ sc_out # <<>>
    /\ sc_out[1].stress_dsr_ratio > sc_in.dsr_limit
    /\ sc_out[2].stress_dsr_ratio <= sc_in.dsr_limit
    /\ sc_out[1].dsr_ratio <= sc_in.dsr_limit
    /\ sc_out[1].decision = "approved"
    /\ sc_out[2].decision = "approved"

\* C16: two stored evaluations of one application that read the same
\* application data and recorded equal regulation snapshots have the same
\* score, decision, approved amount and final rate (the grade is a function of
\* the score).
C16_SnapshotDetermines ==
    \A i, j \in DOMAIN scores :
        (/\ scores[i].application_id = scores[j].application_id
         /\ scores[i].evaluated = scores[j].evaluated
         /\ scores[i].regulation_snapshot = scores[j].regulation_snapshot)
        => /\ scores[i].score = scores[j].score
           /\ scores[i].decision = scores[j].decision
           /\ scores[i].approved_amount_won = scores[j].approved_amount_won
           /\ scores[i].approved_rate = scores[j].approved_rate

\* C17: a step of a submit request changes the loan_applications and
\* credit_scores tables only when it is the request's successful commit; a
\* request that fails or is cancelled, at whichever point, leaves no
\* credit_scores row, no regulation snapshot and no status or step change.
C17_NothingPersisted ==
    [][\A r \in DOMAIN ev :
          (/\ ev'[r] # ev[r]
           /\ ~(ev[r].pc = "scored" /\ ev'[r].pc = "done"))
          => apps' = apps /\ scores' = scores]_vars

\* a submit cancelled before any submit has committed: the application is as
\* it was before the request
C17_Witness ==
    /\ ev[1].pc = "failed"
    /\ ev[1].kind = "submit"
    /\ ev[1].error = "cancelled"
    /\ scores = <<>>
    /\ apps[1].status = "pending"
    /\ apps[1].application_step = "review"
    /\ apps[1].regulation_snapshot = <<>>

\* C18: a step that commits an administrator's parameter write (a created
\* row, or a row made inactive) also appends an audit record whose
\* regulation_ref is the param_key of the written row.
C18_WriteAudited ==
    [][\A row \in store' \ store :
          (row.created_by # "system_seed" \/ ~row.is_active)
          => /\ Len(audit_logs') = Len(audit_logs) + 1
             /\ audit_logs'[Len(audit_logs')].regulation_ref = row.param_key]_vars

\* C19: deactivate_param removes no row and changes nothing but is_active (to
\* false) and effective_to (to the current time) of the target row.
C19_DeactivateFrame ==
    [][\A row \in store :
          (\E new \in store' : new.id = row.id /\ row.is_active /\ ~new.is_active)
          => store' = (store \ {row})
                      \cup {[row EXCEPT !.is_active = FALSE, !.effective_to = <<clock>>]}]_vars

\* C20: for pd_a <= pd_b in [10^-6, 1 - 10^-6],
\* 900 >= pd_to_score(pd_a) >= pd_to_score(pd_b) >= 300.
C20_BoundedMonotone ==
    (sc_out # <<>> /\ sc_in.pd_a <= sc_in.pd_b)
    => /\ SCORE_MAX >= sc_out[1]
       /\ sc_out[1] >= sc_out[2]
       /\ sc_out[2] >= SCORE_MIN

\* two probabilities whose scores are different and both inside the range
C20_Witness ==
    /\ sc_out # <<>>
    /\ sc_in.pd_a < sc_in.pd_b
    /\ SCORE_MAX > sc_out[1]
    /\ sc_out[1] > sc_out[2]
    /\ sc_out[2] > SCORE_MIN

(***************************************************************************)
(* A submit for an applicant whose employer grade is on record             *)
(***************************************************************************)
\* values of applicants.employer_eq_grade: NULL, or a grade an employer
\* lookup has stored
EmployerGrades == {"", "EQ-A", "EQ-E"}

InitEq ==
    /\ clock = InitClock
    /\ store = SeedRows({}, 1)
    /\ next_id = 1 + Len(SEED_PARAMS)
    /\ store_up = TRUE
    /\ wseq = [k \in ParamKeys |-> 0]
    /\ q = <<>>
    /\ cache = <<>>
    /\ ev = [r \in {1} |-> IdleRequest]
    /\ \E req \in ApplicantInfoRequests, choice \in ProductChoices,
          grade \in EmployerGrades :
          /\ applicants = <<[NewApplicant(req) EXCEPT !.employer_eq_grade = grade]>>
          /\ apps = <<ReviewedApplication(req, choice)>>
    /\ scores = <<>>
    /\ ews = EwsIdle
    /\ cbs = NewCBService /\ sc_in = <<>> /\ sc_out = <<>>
    /\ audit_logs = <<>>

SpecEq == InitEq /\ [][NextSubmit]_vars

(***************************************************************************)
(* The PD provider of ScoringEngine.score and the IRG adjustment           *)
(***************************************************************************)
\* pd_raw of score(): the trained model's prediction when a model file is
\* loaded, _estimate_pd_statistical otherwise
provider_pd(model_loaded, model_prediction, inp) ==
    IF model_loaded THEN model_prediction ELSE estimate_pd_statistical(inp)

\* the provider's probability before any IRG adjustment: the prediction of
\* the trained model, the logistic value of the statistical estimate
unadjusted_pd(model_loaded, model_prediction, inp) ==
    IF model_loaded THEN model_prediction ELSE sigmoid(pd_log_odds(inp))

IrgInputs ==
    { [product_type |-> "credit", requested_amount |-> 3000,
       requested_term_months |-> 36, applicant_type |-> "individual",
       income_annual |-> income, cb_score |-> b.cb_score,
       delinquency_count_12m |-> b.delinquency_count_12m,
       worst_delinquency_status |-> b.worst_delinquency_status,
       inquiry_count_3m |-> b.inquiry_count_3m,
       segment_code |-> "", eq_grade |-> "EQ-C", irg_code |-> code,
       irg_pd_adjustment |-> irg_fallback(code),
       collateral_value |-> 0, existing_monthly_payment |-> 0,
       business_duration_months |-> 0, tax_filing_count |-> 0] :
        income \in {1100, 8000},
        b \in BureauRecords \cup {[cb_score |-> CB_FALLBACK_SCORE, credit_grade |-> "BB",
                                   delinquency_count_12m |-> 0,
                                   worst_delinquency_status |-> 0,
                                   inquiry_count_3m |-> 0]},
        code \in {"L", "M", "H", "VH"} }

IrgCases ==
    [inp : IrgInputs, model_loaded : BOOLEAN, model_prediction : {173, 7200, 26900}]

IrgCall ==
    /\ sc_out = <<>>
    /\ sc_out' = <<engine_score(sc_in.inp,
                                provider_pd(sc_in.model_loaded, sc_in.model_prediction,
                                            sc_in.inp),
                                400000, 0, LTV_NOT_APPLICABLE, 200000, BASE_RATE)>>
    /\ UNCHANGED <<clock, store, next_id, store_up, cache, wseq, ev, q, apps,
                   applicants, scores, ews, cbs, sc_in, audit_logs>>

InitIrg ==
    /\ sc_in \in IrgCases
    /\ sc_out = <<>>
    /\ IdleRest

NextIrg == IrgCall

SpecIrg == InitIrg /\ [][NextIrg]_vars

(***************************************************************************)
(* Resolution of the seeded keys in a freshly seeded store                 *)
(***************************************************************************)
MaxEffective == 7       \* latest effective_at a lookup asks for, in minutes

\* one _query_param lookup of a seeded key at effective_at
SeedLookup ==
    /\ sc_out = <<>>
    /\ sc_out' = <<query_param(store, sc_in.param_key, EmptyMap, sc_in.effective_at)>>
    /\ UNCHANGED <<clock, store, next_id, store_up, cache, wseq, ev, q, apps,
                   applicants, scores, ews, cbs, sc_in, audit_logs>>

\* the store right after seed_regulation_params on an empty table
InitSeed ==
    /\ sc_in \in [param_key : ParamKeys, effective_at : EPOCH..MaxEffective]
    /\ sc_out = <<>>
    /\ clock = InitClock
    /\ store = SeedRows({}, 1)
    /\ next_id = 1 + Len(SEED_PARAMS)
    /\ store_up = TRUE
    /\ cache = <<>> /\ wseq = <<>> /\ ev = <<>> /\ q = <<>>
    /\ apps = <<>> /\ applicants = <<>> /\ scores = <<>>
    /\ ews = EwsIdle /\ cbs = NewCBService
    /\ audit_logs = <<>>

NextSeed == SeedLookup

SpecSeed == InitSeed /\ [][NextSeed]_vars

(***************************************************************************)
(* RateLimitMiddleware (rate_limit_middleware.py).  Time is counted in     *)
(* units of 30 seconds.  cache holds the sorted set of each client key,    *)
(* ev the requests between reading the time and running the pipeline,      *)
(* sc_out the responses in the order they were decided.                    *)
(***************************************************************************)
WINDOW_SECONDS == 2                     \* _WINDOW_SECONDS = 60 s
RATE_LIMIT_PER_MINUTE == 2              \* environment setting (default 60)
RATE_LIMIT_SCORING_PER_MINUTE == 1      \* environment setting (default 30)
MaxRequests == 3                        \* responses recorded

EXEMPT == {"/health", "/metrics", "/docs", "/redoc", "/openapi.json"}
RequestPaths == {"/health", "/api/v1/scoring/evaluate", "/api/v1/applications"}

\* _get_client_key for a bearer token and for a bare address
ClientKeys == {"rl:token:0123456789abcdef", "rl:ip:10.0.0.1"}

\* path.startswith("/api/v1/scoring")
is_scoring_path(path) == path = "/api/v1/scoring/evaluate"

path_limit(path) ==
    IF is_scoring_path(path) THEN RATE_LIMIT_SCORING_PER_MINUTE
    ELSE RATE_LIMIT_PER_MINUTE

EmptyZset == [members |-> {}, expire_at |-> 0]
IdleLimited == [pc |-> "idle", key |-> "", path |-> "", now |-> 0]

\* the sorted set under key as the server sees it at time t: a key whose
\* expiry has passed is gone.  A member is str(now) with score now, so
\* equal times are one member.
zset_at(key, t) ==
    IF cache[key].expire_at <= t THEN {} ELSE cache[key].members

\* the MULTI/EXEC pipeline of _check_rate_limit: ZREMRANGEBYSCORE up to
\* now - window, ZADD str(now), ZCARD, EXPIRE window + 1
pipeline_members(key, now) ==
    {m \in zset_at(key, clock) : m > now - WINDOW_SECONDS} \cup {now}

Response(key, path, now, allowed, checked) ==
    [key |-> key, path |-> path, now |-> now, allowed |-> allowed,
     checked |-> checked]

\* dispatch up to the await of the pipeline: an exempt path is passed on,
\* any other request has read time.time() and built its pipeline
dispatch(r, key, path) ==
    /\ ev[r].pc = "idle"
    /\ Len(sc_out) + Cardinality({s \in DOMAIN ev : ev[s].pc = "timed"}) < MaxRequests
    /\ IF path \in EXEMPT
       THEN /\ sc_out' = Append(sc_out, Response(key, path, clock, TRUE, FALSE))
            /\ UNCHANGED ev
       ELSE /\ ev' = [ev EXCEPT ![r] = [pc |-> "timed", key |-> key, path |-> path,
                                        now |-> clock]]
            /\ UNCHANGED sc_out
    /\ UNCHANGED <<clock, store, next_id, store_up, cache, wseq, q, apps,
                   applicants, scores, ews, cbs, sc_in, audit_logs>>

\* the pipeline executes and dispatch answers: 429 when count > limit
check_rate_limit(r) ==
    /\ ev[r].pc = "timed"
    /\ LET key     == ev[r].key
           members == pipeline_members(key, ev[r].now)
           count   == Cardinality(members)
       IN  /\ cache' = [cache EXCEPT ![key] =
                           [members |-> members,
                            expire_at |-> clock + WINDOW_SECONDS + 1]]
           /\ sc_out' = Append(sc_out,
                               Response(key, ev[r].path, ev[r].now,
                                        count <= path_limit(ev[r].path), TRUE))
    /\ ev' = [ev EXCEPT ![r] = IdleLimited]
    /\ UNCHANGED <<clock, store, next_id, store_up, wseq, q, apps,
                   applicants, scores, ews, cbs, sc_in, audit_logs>>

\* Redis raises (or no client was created): the request is let through
check_rate_limit_fail_open(r) ==
    /\ ev[r].pc = "timed"
    /\ sc_out' = Append(sc_out, Response(ev[r].key, ev[r].path, ev[r].now, TRUE, FALSE))
    /\ ev' = [ev EXCEPT ![r] = IdleLimited]
    /\ UNCHANGED <<clock, store, next_id, store_up, cache, wseq, q, apps,
                   applicants, scores, ews, cbs, sc_in, audit_logs>>

LimiterTick ==
    /\ clock < MaxClock
    /\ clock' = clock + 1
    /\ UNCHANGED <<store, next_id, store_up, cache, wseq, ev, q, apps,
                   applicants, scores, ews, cbs, sc_in, sc_out, audit_logs>>

InitLimiter ==
    /\ clock = 0
    /\ cache = [k \in ClientKeys |-> EmptyZset]
    /\ ev = [r \in {1, 2} |-> IdleLimited]
    /\ sc_out = <<>>
    /\ store = {} /\ next_id = 1 /\ store_up = TRUE
    /\ wseq = <<>> /\ q = <<>>
    /\ apps = <<>> /\ applicants = <<>> /\ scores = <<>>
    /\ ews = EwsIdle /\ cbs = NewCBService
    /\ sc_in = <<>> /\ audit_logs = <<>>

NextLimiter ==
    \/ \E r \in {1, 2}, key \in ClientKeys, path \in RequestPaths : dispatch(r, key, path)
    \/ \E r \in {1, 2} : check_rate_limit(r)
    \/ \E r \in {1, 2} : check_rate_limit_fail_open(r)
    \/ LimiterTick

SpecLimiter == InitLimiter /\ [][NextLimiter]_vars

(***************************************************************************)
(* submit_appeal (applications.py), on top of the submit flow              *)
(***************************************************************************)
\* ORDER BY scored_at DESC LIMIT 1 over the results of app_id: a row that no
\* other row of the application is later than
latest_results(app_id) ==
    {i \in DOMAIN scores :
        /\ scores[i].application_id = app_id
        /\ \A j \in DOMAIN scores :
              scores[j].application_id = app_id
              => scores[j].scored_at <= scores[i].scored_at}

\* the answer of submit_appeal for the row cs it selected
appeal_status(cs) ==
    IF cs.decision # "rejected" THEN 400
    ELSE IF cs.appeal_deadline # <<>> /\ clock > cs.appeal_deadline[1] THEN 400
    ELSE 200

\* POST /applications/{id}/appeal; sc_out keeps the last answer
submit_appeal(app_id) ==
    /\ store_up
    /\ IF latest_results(app_id) = {}
       THEN sc_out' = <<[application_id |-> app_id, status_code |-> 404]>>
       ELSE \E i \in latest_results(app_id) :
               sc_out' = <<[application_id |-> app_id,
                            status_code |-> appeal_status(scores[i])]>>
    /\ UNCHANGED <<clock, store, next_id, store_up, cache, wseq, ev, q, apps,
                   applicants, scores, ews, cbs, sc_in, audit_logs>>

\* thirty days go by
AppealPeriodPasses ==
    /\ clock <= MaxClock
    /\ clock' = clock + APPEAL_PERIOD
    /\ UNCHANGED <<store, next_id, store_up, cache, wseq, ev, q, apps, applicants,
                   scores, ews, cbs, sc_in, sc_out, audit_logs>>

NextAppeal ==
    \/ NextSubmit
    \/ \E app_id \in DOMAIN apps : submit_appeal(app_id)
    \/ Tick
    \/ AppealPeriodPasses

SpecAppeal == InitSubmit /\ [][NextAppeal]_vars

(***************************************************************************)
(* Income-multiple limit of unsecured loans                                *)
(***************************************************************************)
\* credit_loan.income_multiplier.<employment_type> of the seed, x10; the
\* accessor's default is 1.5 for a kind without a row
seeded_income_multiplier(employment_type) ==
    CASE employment_type = "employed" -> 15
      [] employment_type = "self_employed" -> 10
      [] OTHER -> 15

\* get_credit_loan_income_multiplier as <<base x10, segment multiplier x4>>:
\* the base multiple of the employment kind, scaled by the segment's
\* limit_multiplier when a segment code is given
get_credit_loan_income_multiplier(employment_type, segment_code) ==
    <<seeded_income_multiplier(employment_type),
      IF segment_code # ""
      THEN Get(segment_fallback(segment_code), "limit_multiplier", 10000)
      ELSE 10000>>

\* ScoringInput of an unsecured application as ScoringService.evaluate
\* builds it: a verified segment raises the EQ grade to its guaranteed one
LimitInputs ==
    { inp \in [product_type : {"credit", "credit_soho", "mortgage"},
               requested_amount : {3000, 50000},
               income_annual : {1200, 8000},
               worst_delinquency_status : {0},
               eq_grade : {"EQ-B", "EQ-C", "EQ-E"},
               irg_pd_adjustment : {0},
               collateral_value : {100000},
               existing_monthly_payment : {0},
               employment_type : {"employed", "self_employed"},
               segment_code : {"", "SEG-DR"},
               requested_term_months : {36}] :
        inp.segment_code = "SEG-DR" => inp.eq_grade = "EQ-B" }

LimitCases ==
    [inp : LimitInputs, pd_raw : {100, 7200, 25000}, dsr_limit : DsrLimits,
     ltv_resolved : {700000}]

LimitCall ==
    /\ sc_out = <<>>
    /\ sc_out' = <<Score(sc_in.inp, sc_in.pd_raw, sc_in.dsr_limit,
                         service_ltv_limit(sc_in.inp.product_type, sc_in.ltv_resolved))>>
    /\ UNCHANGED <<clock, store, next_id, store_up, cache, wseq, ev, q, apps,
                   applicants, scores, ews, cbs, sc_in, audit_logs>>

InitLimit ==
    /\ sc_in \in LimitCases
    /\ sc_out = <<>>
    /\ IdleRest

NextLimit == LimitCall

SpecLimit == InitLimit /\ [][NextLimit]_vars

\* a report dict carries a data_source tag, and the tag is demo when the
\* report was computed from synthetic data
C21_Tagged(report) ==
    /\ "data_source" \in report.keys
    /\ report.data_source \in {"database", "demo"}
    /\ report.synthetic => report.data_source = "demo"

\* C21: every report the monitoring engine returns (score PSI, calibration,
\* each feature's PSI, the full report) carries a data_source tag in
\* {database, demo}, and the tag is demo whenever synthetic data was used.
C21_DataSourceTag ==
    sc_out # <<>> =>
        IF sc_out[1].kind = "feature_psi"
        THEN \A f \in DOMAIN sc_out[1].report : C21_Tagged(sc_out[1].report[f])
        ELSE C21_Tagged(sc_out[1].report)


\* C22: the approved amount of an approved unsecured loan (credit,
\* credit_soho) is min(requested, income x income_multiplier x
\* eq_limit_multiplier), where income_multiplier is the parameter store's
\* multiple for the applicant's employment kind scaled by the segment's
\* limit_multiplier.
C22_IncomeMultipleLimit ==
    (/\ sc_out # <<>>
     /\ sc_out[1].decision = "approved"
     /\ sc_in.inp.product_type \in {"credit", "credit_soho"})
    => LET mult == get_credit_loan_income_multiplier(sc_in.inp.employment_type,
                                                     sc_in.inp.segment_code)
       IN  sc_out[1].approved_amount_won =
               Min(sc_in.inp.requested_amount * 10000,
                   sc_in.inp.income_annual * mult[1]
                       * eq_multiplier(sc_in.inp.eq_grade) * (mult[2] \div 100))

\* C23: the EQ grade an evaluation uses is the stronger of the applicant's
\* own grade and the minimum grade of the applicant's segment, never weaker
\* than the applicant's own, and no step of the evaluation changes the
\* employer_eq_grade of a stored applicant (nor of the loaded record).
C23_EqGradeUpgradeOnly ==
    /\ [](\A r \in DOMAIN ev :
            (ev[r].pc = "scored" /\ ev[r].kind = "submit") =>
                LET own  == OrDefault(ev[r].applicant.employer_eq_grade, "EQ-C")
                    min  == IF ev[r].applicant.segment_code # ""
                            THEN Get(ev[r].vals.seg_benefit, "guaranteed_eq_grade", "")
                            ELSE ""
                    used == ev[r].snapshot.eq_grade
                IN  /\ used \in {own, min}
                    /\ eq_index(used) <= eq_index(own)
                    /\ min # "" => eq_index(used) <= eq_index(min)
                    /\ ev[r].applicant.employer_eq_grade =
                         applicants[apps[ev[r].app_id].applicant_id].employer_eq_grade)
    /\ [][\A i \in DOMAIN applicants :
            /\ i \in DOMAIN applicants'
            /\ applicants'[i].employer_eq_grade = applicants[i].employer_eq_grade]_vars

\* a scored submit of a SEG-DR applicant whose own grade EQ-E is weaker than
\* the segment's EQ-B: EQ-B was used and the row still holds EQ-E
C23_Witness ==
    /\ ev[1].pc = "scored"
    /\ ev[1].kind = "submit"
    /\ ev[1].applicant.segment_code = "SEG-DR"
    /\ ev[1].snapshot.eq_grade = "EQ-B"
    /\ applicants[1].employer_eq_grade = "EQ-E"

\* C24: pd_final = clamp(pd_raw x (1 + irg_adjustment), 0.001, 0.999) where
\* pd_raw is the provider's unadjusted probability: the adjustment enters
\* once, for the trained model and for the statistical fallback alike.
C24_IrgAppliedOnce ==
    sc_out # <<>> =>
        sc_out[1].pd_final =
            pd_final_of(unadjusted_pd(sc_in.model_loaded, sc_in.model_prediction,
                                      sc_in.inp),
                        sc_in.inp.irg_pd_adjustment)

\* C25: in a freshly seeded store, a lookup of any seeded param_key at any
\* effective_at on or after the Phase 3 date (2025-07-01) finds an active
\* row, so no accessor falls through to its default.
C25_SeedCoversPresent ==
    (sc_out # <<>> /\ sc_in.effective_at >= PHASE3_DATE) => sc_out[1] # NoValue

\* the requests of client key that the limiter let through on paths of one
\* limit class with a request time in the window (t - window, t]
C26_Allowed(key, scoring, t) ==
    {i \in DOMAIN sc_out :
        /\ sc_out[i].key = key
        /\ sc_out[i].checked
        /\ sc_out[i].allowed
        /\ scoring => is_scoring_path(sc_out[i].path)
        /\ sc_out[i].now > t - WINDOW_SECONDS
        /\ sc_out[i].now <= t}

\* C26: while the Redis window store answers, for every client key and every
\* sliding window the number of requests let through is at most the limit:
\* the scoring limit for requests under /api/v1/scoring, the general limit
\* for all limited requests, also for concurrent or same-time requests.
C26_WindowLimit ==
    (\A i \in DOMAIN sc_out : sc_out[i].checked \/ sc_out[i].path \in EXEMPT)
    => \A key \in ClientKeys, t \in 0..MaxClock :
          /\ Cardinality(C26_Allowed(key, TRUE, t)) <= RATE_LIMIT_SCORING_PER_MINUTE
          /\ Cardinality(C26_Allowed(key, FALSE, t)) <= RATE_LIMIT_PER_MINUTE

\* C27: a mortgage whose collateral value is absent or not positive is never
\* approved.
C27_NoCollateralNoApproval ==
    (/\ sc_out # <<>>
     /\ sc_in.inp.product_type = "mortgage"
     /\ sc_in.inp.collateral_value <= 0)
    => sc_out[1].decision # "approved"

\* position of a step in consent -> applicant_info -> financial_info ->
\* product_select -> review -> submit
C28_StepIndex(step) ==
    CASE step = "consent" -> 0
      [] step = "applicant_info" -> 1
      [] step = "financial_info" -> 2
      [] step = "product_select" -> 3
      [] step = "review" -> 4
      [] step = "submit" -> 5

\* C28: application_step is a linear state machine: a step that changes it
\* moves it to the next step of the sequence (never backward, never over a
\* step), and an evaluation starts only for an application at step review.
C28_LinearSteps ==
    [][/\ \A a \in DOMAIN apps :
            apps'[a].application_step # apps[a].application_step
            => C28_StepIndex(apps'[a].application_step)
                 = C28_StepIndex(apps[a].application_step) + 1
       /\ \A r \in DOMAIN ev :
            (ev[r].pc = "idle" /\ ev'[r].pc # "idle" /\ ev'[r].kind = "submit")
            => apps[ev'[r].app_id].application_step = "review"]_vars

\* the stored results of application a
C29_ResultsOf(a) == {i \in DOMAIN scores : scores[i].application_id = a}

\* C29: whatever the order in which evaluations of an application completed,
\* an application that has results and is not suspended has as status the
\* decision of its latest result by scored_at.
C29_StatusIsLatestDecision ==
    \A a \in DOMAIN apps :
        (C29_ResultsOf(a) # {} /\ apps[a].status # "suspended")
        => \E i \in C29_ResultsOf(a) :
              /\ \A j \in C29_ResultsOf(a) : scores[j].scored_at <= scores[i].scored_at
              /\ apps[a].status = scores[i].decision

\* C30: submit_appeal accepts exactly when the latest result of the
\* application by scored_at carries an appeal_deadline (its decision is
\* rejected or manual_review) and the current time is not after it; it
\* refuses an approved result, an application without results, and a late
\* appeal.
C30_AppealAcceptedIff ==
    [][sc_out' # sc_out =>
         LET app_id == sc_out'[1].application_id
         IN  (sc_out'[1].status_code = 200)
             <=> \E i \in latest_results(app_id) :
                    /\ scores[i].appeal_deadline # <<>>
                    /\ clock <= scores[i].appeal_deadline[1]]_vars
====
